---- MODULE Spec2Model ----
(***************************************************************************)
(* A model of src/runtime/parser.ts of Eve: the markdown extractor         *)
(* (parseMarkdown), the block lexer (EveBlockLexer), the ParseBlock IR     *)
(* container, the lowering recursive-descent parser (class Parser) and the *)
(* public entry points parseBlock and parseDoc.                            *)
(*                                                                         *)
(* JavaScript objects live in arenas (sequences); a reference is a small   *)
(* record naming the arena and the index, so that aliasing (a variable     *)
(* node shared by several scans, a variableLookup shared by a block and    *)
(* its sub-blocks, an array captured by a node and pushed to later) is     *)
(* modelled as the code has it.                                            *)
(***************************************************************************)
EXTENDS Integers, Sequences, FiniteSets, TLC

VARIABLES
  eveParser,   \* the module's shared Parser instance and the closure state of its constructor
  call,        \* the public call made last and what it returned
  ncalls,      \* number of public calls made so far
  md,          \* parseMarkdown's locals while a document is walked
  docs,        \* parseDoc's locals while a document is parsed
  pb           \* a family of ParseBlock objects driven directly through its methods

vars == <<eveParser, call, ncalls, md, docs, pb>>

\* Bind([x \in {v} |-> body]) is body with x the value v: const x = v; body
Bind(f) == f[CHOOSE x \in DOMAIN f : TRUE]

-----------------------------------------------------------------------------
(* Characters and character classes of the token patterns.                  *)

NL == "\n"
BS == "\\"
QUOTE == "\""

\* the i-th character of s (1-based), "" past the end
Ch(s, i) == IF i >= 1 /\ i <= Len(s) THEN SubSeq(s, i, i) ELSE ""

\* s from its i-th character on: String.substr
From(s, i) == IF i > Len(s) THEN "" ELSE SubSeq(s, i, Len(s))

\* \s of a JavaScript regular expression, over the characters used here
IsSpace(c) == c \in {" ", NL, "\t", "\r"}

\* \d
IsDigit(c) == c \in {"0", "1", "2", "3", "4", "5", "6", "7", "8", "9"}

\* breakChars: @ # . , ( ) [ ] { } : " (and the two uuid brackets, which no
\* source of the model contains)
IsBreak(c) == c \in {"@", "#", ".", ",", "(", ")", "[", "]", "{", "}", ":", QUOTE}

\* [^\s${breakChars}]
IsNonBreak(c) == c # "" /\ ~IsSpace(c) /\ ~IsBreak(c)

\* [\+-/\*]: the range from + to / and the star
IsSignStart(c) == c \in {"+", ",", "-", ".", "/", "*"}

RECURSIVE RunNonBreak(_, _)
\* length of the longest run of [^\s${breakChars}] starting at i
RunNonBreak(s, i) == IF IsNonBreak(Ch(s, i)) THEN 1 + RunNonBreak(s, i + 1) ELSE 0

RECURSIVE RunDigits(_, _)
RunDigits(s, i) == IF IsDigit(Ch(s, i)) THEN 1 + RunDigits(s, i + 1) ELSE 0

RECURSIVE RunSpace(_, _)
RunSpace(s, i) == IF IsSpace(Ch(s, i)) THEN 1 + RunSpace(s, i + 1) ELSE 0

RECURSIVE RunNotNewline(_, _)
\* .* : every character but a line terminator
RunNotNewline(s, i) ==
  IF Ch(s, i) # "" /\ Ch(s, i) # NL /\ Ch(s, i) # "\r" THEN 1 + RunNotNewline(s, i + 1) ELSE 0

\* does s hold the literal lit at i
At(s, i, lit) == i + Len(lit) - 1 <= Len(s) /\ SubSeq(s, i, i + Len(lit) - 1) = lit

-----------------------------------------------------------------------------
(* Token patterns: each gives the length matched at i, 0 for no match.      *)

\* Identifier: [\+-/\*][^\s<break>]+ | [^\d<break>\+-/\*][^\s<break>]*
MatchIdentifier(s, i) ==
  LET c == Ch(s, i) IN
  IF c = "" THEN 0
  ELSE IF IsSignStart(c)
    THEN (IF RunNonBreak(s, i + 1) >= 1 THEN 1 + RunNonBreak(s, i + 1) ELSE 0)
    ELSE IF IsDigit(c) \/ IsBreak(c) THEN 0 ELSE 1 + RunNonBreak(s, i + 1)

\* Num: -?\d+(\.\d+)?
MatchNum(s, i) ==
  LET neg == IF Ch(s, i) = "-" THEN 1 ELSE 0
      d == RunDigits(s, i + neg)
      j == i + neg + d
      frac == IF Ch(s, j) = "." THEN RunDigits(s, j + 1) ELSE 0
  IN IF d = 0 THEN 0 ELSE neg + d + (IF frac > 0 THEN 1 + frac ELSE 0)

\* WhiteSpace: \s+|,
MatchWhiteSpace(s, i) ==
  IF RunSpace(s, i) > 0 THEN RunSpace(s, i) ELSE IF Ch(s, i) = "," THEN 1 ELSE 0

\* CommentLine: \/\/.*\n
MatchCommentLine(s, i) ==
  IF At(s, i, "//")
    THEN LET n == RunNotNewline(s, i + 2)
         IN IF Ch(s, i + 2 + n) = NL THEN 2 + n + 1 ELSE 0
    ELSE 0

RECURSIVE RunStringChars(_, _)
\* StringChars: (\\.|{(?=[^{])|[^"\\{])+
RunStringChars(s, i) ==
  LET c == Ch(s, i) d == Ch(s, i + 1) IN
  IF c = "" THEN 0
  ELSE IF c = BS
    THEN (IF d # "" /\ d # NL /\ d # "\r" THEN 2 + RunStringChars(s, i + 2) ELSE 0)
    ELSE IF c = "{"
      THEN (IF d # "" /\ d # "{" THEN 1 + RunStringChars(s, i + 1) ELSE 0)
      ELSE IF c = QUOTE THEN 0 ELSE 1 + RunStringChars(s, i + 1)

\* the first of the literals lits that s holds at i, as a length
MatchAny(s, i, lits) ==
  Bind([hit \in {{k \in 1..Len(lits) : At(s, i, lits[k])}} |->
  IF hit = {} THEN 0
  ELSE Len(lits[CHOOSE k \in hit : \A k2 \in hit : k <= k2])])

\* the pattern of a token class
MatchClass(cls, s, i) ==
  CASE cls = "WhiteSpace" -> MatchWhiteSpace(s, i)
    [] cls = "CommentLine" -> MatchCommentLine(s, i)
    [] cls = "OpenBracket" -> MatchAny(s, i, <<"[">>)
    [] cls = "CloseBracket" -> MatchAny(s, i, <<"]">>)
    [] cls = "OpenParen" -> MatchAny(s, i, <<"(">>)
    [] cls = "CloseParen" -> MatchAny(s, i, <<")">>)
    [] cls = "StringEmbedClose" -> MatchAny(s, i, <<"}}">>)
    [] cls = "StringOpen" -> MatchAny(s, i, <<QUOTE>>)
    [] cls = "StringClose" -> MatchAny(s, i, <<QUOTE>>)
    [] cls = "StringEmbedOpen" -> MatchAny(s, i, <<"{{">>)
    [] cls = "StringChars" -> RunStringChars(s, i)
    [] cls = "Bool" -> MatchAny(s, i, <<"true", "false">>)
    [] cls = "Action" -> MatchAny(s, i, <<"bind", "commit">>)
    [] cls = "Set" -> MatchAny(s, i, <<":=">>)
    [] cls = "Equality" -> MatchAny(s, i, <<":", "=">>)
    [] cls = "Dot" -> MatchAny(s, i, <<".">>)
    [] cls = "Pipe" -> MatchAny(s, i, <<"|">>)
    [] cls = "Merge" -> MatchAny(s, i, <<"<-">>)
    [] cls = "Mutate" -> MatchAny(s, i, <<"+=", "-=">>)
    [] cls = "Comparison" -> MatchAny(s, i, <<">=", "<=", "!=", ">", "<">>)
    [] cls = "Num" -> MatchNum(s, i)
    [] cls = "Match" -> MatchAny(s, i, <<"match">>)
    [] cls = "Is" -> MatchAny(s, i, <<"is">>)
    [] cls = "If" -> MatchAny(s, i, <<"if">>)
    [] cls = "Else" -> MatchAny(s, i, <<"else">>)
    [] cls = "Then" -> MatchAny(s, i, <<"then">>)
    [] cls = "Not" -> MatchAny(s, i, <<"not">>)
    [] cls = "None" -> MatchAny(s, i, <<"none">>)
    [] cls = "Name" -> MatchAny(s, i, <<"@">>)
    [] cls = "Tag" -> MatchAny(s, i, <<"#">>)
    [] cls = "Identifier" -> MatchIdentifier(s, i)
    [] cls = "AddInfix" -> MatchAny(s, i, <<"+", "-">>)
    [] cls = "MultInfix" -> MatchAny(s, i, <<"*", "/">>)

\* Keyword.LONGER_ALT = Identifier, inherited by every keyword class
HasLongerAlt(cls) ==
  cls \in {"Bool", "Action", "Match", "Is", "If", "Else", "Then", "Not", "None"}

\* the label field of a token class
Label(cls) ==
  CASE cls = "CommentLine" -> "comment"
    [] cls = "Equality" -> "equality"
    [] cls = "Comparison" -> "comparison"
    [] cls \in {"AddInfix", "MultInfix"} -> "infix"
    [] cls = "Merge" -> "merge"
    [] cls = "Set" -> "set"
    [] cls = "Mutate" -> "mutate"
    [] cls = "Dot" -> "dot"
    [] cls = "Pipe" -> "pipe"
    [] cls = "Identifier" -> "identifier"
    [] cls = "Action" -> "action"
    [] cls = "Match" -> "match"
    [] cls = "Is" -> "is"
    [] cls = "If" -> "if"
    [] cls = "Else" -> "else"
    [] cls = "Then" -> "then"
    [] cls = "Not" -> "not"
    [] cls = "Bool" -> "bool"
    [] cls = "Num" -> "num"
    [] cls = "None" -> "none"
    [] cls = "Name" -> "name"
    [] cls = "Tag" -> "tag"
    [] cls = "OpenBracket" -> "open-bracket"
    [] cls = "CloseBracket" -> "close-bracket"
    [] cls = "OpenParen" -> "open-paren"
    [] cls = "CloseParen" -> "close-paren"
    [] cls = "StringChars" -> "string"
    [] cls \in {"StringOpen", "StringClose"} -> "quote"
    [] cls = "StringEmbedOpen" -> "string-embed-open"
    [] cls = "StringEmbedClose" -> "string-embed-close"
    [] OTHER -> "undefined"

\* codeTokens, in the order the lexer tries them (the fence and the uuid
\* classes match none of the characters of the model's sources)
codeTokens ==
  << "WhiteSpace", "CommentLine", "OpenBracket", "CloseBracket", "OpenParen",
     "CloseParen", "StringEmbedClose", "StringOpen", "Bool", "Action", "Set",
     "Equality", "Dot", "Pipe", "Merge", "Mutate", "Comparison", "Num", "Match",
     "Is", "If", "Else", "Then", "Not", "None", "Name", "Tag", "Identifier",
     "AddInfix", "MultInfix" >>

\* LexerModes
LexerModes(mode) ==
  IF mode = "string" THEN <<"StringClose", "StringEmbedOpen", "StringChars">> ELSE codeTokens

\* PUSH_MODE of a token class, "" when it has none
PushMode(cls) ==
  CASE cls = "StringOpen" -> "string" [] cls = "StringEmbedOpen" -> "code" [] OTHER -> ""

\* POP_MODE
PopMode(cls) == cls \in {"StringClose", "StringEmbedClose"}

-----------------------------------------------------------------------------
(* Lexer.tokenize: first pattern of the current mode that matches wins,    *)
(* unless the class has a longer alternative that matches more; when no    *)
(* pattern matches, characters are dropped up to the next position where   *)
(* one does and a lexing error is recorded.                                 *)

\* index into the mode's pattern list of the first class matching at i, 0 if none
FirstMatch(mode, s, i) ==
  LET pats == LexerModes(mode) IN
  Bind([hit \in {{k \in 1..Len(pats) : MatchClass(pats[k], s, i) > 0}} |->
  IF hit = {} THEN 0 ELSE CHOOSE k \in hit : \A k2 \in hit : k <= k2])

\* [cls, len] of the token at i, len = 0 if no pattern matches
MatchToken(mode, s, i) ==
  Bind([k \in {FirstMatch(mode, s, i)} |->
  IF k = 0 THEN [cls |-> "", len |-> 0]
  ELSE LET cls == LexerModes(mode)[k]
           len == MatchClass(cls, s, i)
           alt == IF HasLongerAlt(cls) THEN MatchIdentifier(s, i) ELSE 0
       IN IF alt > len THEN [cls |-> "Identifier", len |-> alt]
          ELSE [cls |-> cls, len |-> len]])

RECURSIVE Advance(_, _, _)
\* line and column after the text img has been consumed from (line, col)
Advance(img, line, col) ==
  IF img = "" THEN [line |-> line, col |-> col]
  ELSE IF Ch(img, 1) = NL THEN Advance(From(img, 2), line + 1, 1)
       ELSE Advance(From(img, 2), line, col + 1)

RECURSIVE Resync(_, _, _)
\* the number of characters dropped from i on before a pattern matches again
Resync(mode, s, i) ==
  IF i > Len(s) THEN 0
  ELSE IF i + 1 <= Len(s) /\ FirstMatch(mode, s, i + 1) > 0 THEN 1
       ELSE 1 + Resync(mode, s, i + 1)

\* one round of the lexer's loop; st: [i, line, col, modes, tokens, errors],
\* i the 1-based position, modes the mode stack
LexStep(s, st) ==
  LET mode == st.modes[Len(st.modes)] IN
  Bind([m \in {MatchToken(mode, s, st.i)} |->
  IF m.len = 0
    THEN LET n == Resync(mode, s, st.i)
             at == Advance(SubSeq(s, st.i, st.i + n - 1), st.line, st.col)
         IN [st EXCEPT !.i = @ + n, !.line = at.line, !.col = at.col,
                       !.errors = Append(@, [line |-> st.line, column |-> st.col, length |-> n])]
    ELSE LET img == SubSeq(s, st.i, st.i + m.len - 1)
             at == Advance(img, st.line, st.col)
             tok == [type |-> m.cls, image |-> img, startOffset |-> st.i - 1,
                     startLine |-> st.line, startColumn |-> st.col,
                     label |-> Label(m.cls), id |-> ""]
             modes2 == IF PushMode(m.cls) # "" THEN Append(st.modes, PushMode(m.cls))
                       ELSE IF PopMode(m.cls) /\ Len(st.modes) > 1
                         THEN SubSeq(st.modes, 1, Len(st.modes) - 1)
                         ELSE st.modes
         IN [st EXCEPT !.i = @ + m.len, !.line = at.line, !.col = at.col, !.modes = modes2,
                       !.tokens = IF m.cls = "WhiteSpace" THEN @ ELSE Append(@, tok)]])

RECURSIVE Lex(_, _)
\* the loop, to the end of the text
Lex(s, st) == IF st.i > Len(s) THEN st ELSE Lex(s, LexStep(s, st))

\* EveBlockLexer.tokenize(block): defaultMode "code"
Tokenize(s) ==
  Bind([st \in {Lex(s, [i |-> 1, line |-> 1, col |-> 1, modes |-> <<"code">>,
                       tokens |-> <<>>, errors |-> <<>>])} |->
  [tokens |-> st.tokens, errors |-> st.errors]])

-----------------------------------------------------------------------------
(* Values and references.  Every JavaScript value the parser handles is a  *)
(* record tagged by k; the payload field differs per tag.                   *)

Undef == [k |-> "undef"]
NodeRef(i) == [k |-> "node", i |-> i]
TokRef(t) == [k |-> "tok", t |-> t]
BlockRef(b) == [k |-> "block", b |-> b]
\* a property every object inherits from Object.prototype
Builtin(name) == [k |-> "builtin", name |-> name]
StrV(s) == [k |-> "str", s |-> s]
NumV(n) == [k |-> "num", n |-> n]
BoolV(t) == [k |-> "bool", t |-> t]
ListV(items) == [k |-> "list", items |-> items]

IsNode(r) == r.k = "node"
IsTok(r) == r.k = "tok"
IsBlock(r) == r.k = "block"

\* the names an object literal {} answers to without owning them
ObjectPrototypeNames ==
  {"constructor", "toString", "valueOf", "hasOwnProperty", "isPrototypeOf",
   "propertyIsEnumerable", "toLocaleString", "__proto__"}

\* obj[name] on an object literal used as a map
PropGet(obj, name) ==
  IF name \in DOMAIN obj THEN obj[name]
  ELSE IF name \in ObjectPrototypeNames THEN Builtin(name) ELSE Undef

\* obj[name] = v
PropSet(obj, name, v) == (name :> v) @@ obj

\* JavaScript truthiness of the values above
Truthy(v) ==
  CASE v.k = "undef" -> FALSE
    [] v.k = "str" -> v.s # ""
    [] v.k = "num" -> v.n # 0
    [] v.k = "bool" -> v.t
    [] OTHER -> TRUE

-----------------------------------------------------------------------------
(* class ParseBlock.  h is any record with the arenas blocks, lookups and   *)
(* nodes and a ret field for the value returned.                            *)

Ok(h) == h.st = "ok"

\* a TypeError or an Error thrown by the rule code: not a recognition
\* exception, so nothing catches it
Fatal(h, why) == IF Ok(h) THEN [h EXCEPT !.st = "fatal", !.why = why] ELSE h

\* new ParseBlock(id, variableLookup?)
NewParseBlock(h, id, lookup) ==
  LET fresh == lookup = 0
      lk == IF fresh THEN Len(h.lookups) + 1 ELSE lookup
      blk == [id |-> id, nodeId |-> 0, variables |-> <<>>, equalities |-> <<>>,
              scanLike |-> <<>>, expressions |-> <<>>, binds |-> <<>>,
              commits |-> <<>>, variableLookup |-> lk, type |-> "undefined",
              from |-> Undef]
  IN [h EXCEPT !.blocks = Append(@, blk),
               !.lookups = IF fresh THEN Append(@, <<>>) ELSE @,
               !.ret = BlockRef(Len(h.blocks) + 1)]

\* the id makeNode and subBlock hand out next
NextId(blk) == blk.id \o "|" \o ToString(blk.nodeId)

\* ParseBlock.makeNode(type, node): no node literal of the parser carries an id
PBmakeNode(h, b, type, fields) ==
  LET node == [type |-> type, id |-> NextId(h.blocks[b])] @@ fields
  IN [h EXCEPT !.nodes = Append(@, node),
               !.blocks[b].nodeId = @ + 1,
               !.ret = NodeRef(Len(h.nodes) + 1)]

\* ParseBlock.toVariable(name, generated)
PBtoVariable(h, b, name, generated) ==
  LET lk == h.blocks[b].variableLookup
      found == PropGet(h.lookups[lk], name) IN
  Bind([h1 \in {IF Truthy(found) THEN h
                ELSE Bind([m \in {PBmakeNode(h, b, "variable",
                                             [name |-> name, from |-> <<>>, generated |-> generated])} |->
                     [m EXCEPT !.lookups[lk] = PropSet(@, name, m.ret)]])} |->
  LET v == PropGet(h1.lookups[lk], name) IN
  [h1 EXCEPT !.blocks[b].variables = PropSet(@, name, v), !.ret = v]])

\* ParseBlock.subBlock()
PBsubBlock(h, b) ==
  LET blk == h.blocks[b] IN
  Bind([h1 \in {NewParseBlock(h, blk.id \o "|sub" \o ToString(blk.nodeId), blk.variableLookup)} |->
  [h1 EXCEPT !.blocks[b].nodeId = @ + 1]])

\* equality / commit / bind / expression / scan: push onto the named list
PBpush(h, b, key, v) ==
  CASE key = "equality" -> [h EXCEPT !.blocks[b].equalities = Append(@, v)]
    [] key = "commit" -> [h EXCEPT !.blocks[b].commits = Append(@, v)]
    [] key = "bind" -> [h EXCEPT !.blocks[b].binds = Append(@, v)]
    [] key = "expression" -> [h EXCEPT !.blocks[b].expressions = Append(@, v)]
    [] key = "scan" -> [h EXCEPT !.blocks[b].scanLike = Append(@, v)]

-----------------------------------------------------------------------------
(* cleanString and parseFloat.                                              *)

RECURSIVE ReplaceAll(_, _, _)
\* str.replace(/pat/g, rep) for a literal pattern: leftmost matches, left to right
ReplaceAll(s, pat, rep) ==
  IF s = "" THEN ""
  ELSE IF At(s, 1, pat) THEN rep \o ReplaceAll(From(s, Len(pat) + 1), pat, rep)
       ELSE Ch(s, 1) \o ReplaceAll(From(s, 2), pat, rep)

cleanString(str) ==
  Bind([c1 \in {ReplaceAll(str, BS \o "n", NL)} |->
  Bind([c2 \in {ReplaceAll(c1, BS \o "t", "\t")} |->
  Bind([c3 \in {ReplaceAll(c2, BS \o "r", "\r")} |->
  Bind([c4 \in {ReplaceAll(c3, BS \o QUOTE, QUOTE)} |->
  Bind([c5 \in {ReplaceAll(c4, BS \o "{", "{")} |->
  ReplaceAll(c5, BS \o "}", "}")])])])])])

DigitVal(c) ==
  CASE c = "0" -> 0 [] c = "1" -> 1 [] c = "2" -> 2 [] c = "3" -> 3 [] c = "4" -> 4
    [] c = "5" -> 5 [] c = "6" -> 6 [] c = "7" -> 7 [] c = "8" -> 8 [] c = "9" -> 9

RECURSIVE DigitsVal(_, _)
\* the number written by the digits of s, acc the digits read so far
DigitsVal(s, acc) ==
  IF s = "" THEN acc ELSE DigitsVal(From(s, 2), 10 * acc + DigitVal(Ch(s, 1)))

RECURSIVE StripZeros(_)
StripZeros(s) ==
  IF s # "" /\ Ch(s, Len(s)) = "0" THEN StripZeros(SubSeq(s, 1, Len(s) - 1)) ELSE s

\* parseFloat of a Num image: the decimal n / 10^e, fraction zeros dropped
parseFloat(img) ==
  LET neg == Ch(img, 1) = "-"
      body == IF neg THEN From(img, 2) ELSE img
      int == RunDigits(body, 1)
      frac == StripZeros(From(body, int + 2))
      n == DigitsVal(SubSeq(body, 1, int) \o frac, 0)
  IN [k |-> "num", n |-> IF neg THEN 0 - n ELSE n, e |-> Len(frac)]

-----------------------------------------------------------------------------
(* The parser's primitives.  p is the parser state: input and pos (the      *)
(* token stream and the next token), errors, block (self.block), blockStack, *)
(* activeScopes, the arenas, st ("ok", "syntax" after a recognition         *)
(* exception was raised, "fatal" after another throw) and ret, the value    *)
(* the step returned.  A step on a state that is not "ok" does nothing:     *)
(* the exception is unwinding the rules.                                     *)

\* LA(k): the class of the k-th token ahead
LA(p, k) == IF p.pos + k - 1 <= Len(p.input) THEN p.input[p.pos + k - 1].type ELSE "EOF"

\* the token a recognition exception carries: LA(1), by its id
ErrToken(p) == IF p.pos <= Len(p.input) THEN p.input[p.pos].id ELSE "EOF"

\* SAVE_ERROR and throw of a recognition exception
Raise(p, exc) ==
  IF Ok(p) THEN [p EXCEPT !.st = "syntax", !.errors = Append(@, [name |-> exc, token |-> ErrToken(p)])]
  ELSE p

CONSUME(p, cls) ==
  IF ~Ok(p) THEN p
  ELSE IF LA(p, 1) = cls THEN [p EXCEPT !.pos = @ + 1, !.ret = TokRef(p.pos)]
       ELSE Raise(p, "MismatchedTokenException")

Ret(p, v) == IF Ok(p) THEN [p EXCEPT !.ret = v] ELSE p

Image(p, ref) == IF IsTok(ref) THEN p.input[ref.t].image ELSE "undefined"
Line(p, ref) == IF IsTok(ref) THEN ToString(p.input[ref.t].startLine) ELSE "undefined"
\* a column that is the same for every token
ColumnUnread(p, ref) == "0"
Column(p, ref) == IF IsTok(ref) THEN ToString(p.input[ref.t].startColumn) ELSE "undefined"

\* a property of the object behind a reference, Undef when it has none
Field(p, ref, f) ==
  IF IsNode(ref) /\ f \in DOMAIN p.nodes[ref.i] THEN p.nodes[ref.i][f]
  ELSE IF IsBlock(ref) /\ f \in DOMAIN p.blocks[ref.b] THEN p.blocks[ref.b][f]
  ELSE Undef

HasField(p, ref, f) ==
  \/ (IsNode(ref) /\ f \in DOMAIN p.nodes[ref.i])
  \/ (IsBlock(ref) /\ f \in DOMAIN p.blocks[ref.b])

\* node.type as a string, "undefined" for tokens and other values
TypeOf(p, ref) ==
  IF IsNode(ref) THEN p.nodes[ref.i].type
  ELSE IF IsBlock(ref) THEN p.blocks[ref.b].type ELSE "undefined"

\* ref.f = v on a node (tokens and blocks take properties too; the model
\* records those the code reads back)
SetField(p, ref, f, v) ==
  IF ~Ok(p) THEN p
  ELSE IF IsNode(ref) THEN [p EXCEPT !.nodes[ref.i] = PropSet(@, f, v)]
  ELSE IF ref.k \in {"tok", "block", "builtin"} THEN p
  ELSE Fatal(p, "TypeError: cannot set property of undefined")

\* ref.from.push(x)
PushFrom(p, ref, x) ==
  IF ~Ok(p) THEN p
  ELSE IF IsNode(ref) /\ "from" \in DOMAIN p.nodes[ref.i]
    THEN [p EXCEPT !.nodes[ref.i].from = Append(@, x)]
    ELSE Fatal(p, "TypeError: cannot read property push of undefined")

\* ref.attributes.push(x)
PushAttribute(p, ref, x) ==
  IF ~Ok(p) THEN p
  ELSE IF IsNode(ref) /\ "attributes" \in DOMAIN p.nodes[ref.i]
    THEN [p EXCEPT !.nodes[ref.i].attributes = Append(@, x)]
    ELSE Fatal(p, "TypeError: cannot read property push of undefined")

\* makeNode of the constructor: self.block.makeNode(type, node)
makeNode(p, type, fields) ==
  IF ~Ok(p) THEN p
  ELSE IF p.block = 0 THEN Fatal(p, "TypeError: self.block is undefined")
  ELSE PBmakeNode(p, p.block, type, fields)

\* self.block.toVariable(name, generated)
toVariable(p, name, generated) ==
  IF ~Ok(p) THEN p
  ELSE IF p.block = 0 THEN Fatal(p, "TypeError: self.block is undefined")
  ELSE PBtoVariable(p, p.block, name, generated)

\* self.block[key](node), key one of scan, expression, bind, commit, equality
blockPush(p, key, v) ==
  IF ~Ok(p) THEN p
  ELSE IF p.block = 0 THEN Fatal(p, "TypeError: self.block is undefined")
  ELSE PBpush(p, p.block, key, v)

\* does asValue(node) return
AsValueOk(p, v) ==
  \/ TypeOf(p, v) \in {"constant", "variable", "parenthesis"}
  \/ (v.k \in {"node", "block", "tok"} /\ Truthy(Field(p, v, "variable")))

asValue(p, v) ==
  IF ~Ok(p) THEN p
  ELSE IF TypeOf(p, v) \in {"constant", "variable", "parenthesis"} THEN Ret(p, v)
  ELSE IF v.k \in {"node", "block", "tok"} /\ Truthy(Field(p, v, "variable"))
    THEN Ret(p, Field(p, v, "variable"))
  ELSE IF v.k = "undef" THEN Fatal(p, "TypeError: cannot read property type of undefined")
  ELSE Fatal(p, "Tried to get value of a node that is neither a constant nor a variable.")

RECURSIVE asValues(_, _, _)
\* items.map(asValue), acc the values so far
asValues(p, items, acc) ==
  IF ~Ok(p) THEN p
  ELSE IF items = <<>> THEN Ret(p, ListV(acc))
  ELSE Bind([p1 \in {asValue(p, Head(items))} |->
       asValues(p1, Tail(items), Append(acc, p1.ret))])

ifOutputs(p, e) ==
  IF ~Ok(p) THEN p
  ELSE IF TypeOf(p, e) = "parenthesis" THEN asValues(p, Field(p, e, "items"), <<>>)
  ELSE Bind([p1 \in {asValue(p, e)} |->
       Ret(p1, ListV(<<p1.ret>>))])

pushBlock(p, blockId) ==
  IF ~Ok(p) THEN p
  ELSE LET prev == IF p.blockStack = <<>> THEN 0 ELSE p.blockStack[Len(p.blockStack)] IN
       Bind([p1 \in {IF prev # 0 THEN PBsubBlock(p, prev)
                     ELSE NewParseBlock(p, IF blockId = "" THEN "block" ELSE blockId, 0)} |->
       [p1 EXCEPT !.blockStack = Append(@, p1.ret.b), !.block = p1.ret.b]])

popBlock(p) ==
  IF ~Ok(p) THEN p
  ELSE LET n == Len(p.blockStack)
           popped == IF n = 0 THEN Undef ELSE BlockRef(p.blockStack[n])
           rest == IF n = 0 THEN <<>> ELSE SubSeq(p.blockStack, 1, n - 1)
       IN [p EXCEPT !.blockStack = rest,
                    !.block = IF rest = <<>> THEN 0 ELSE rest[Len(rest)],
                    !.ret = popped]

-----------------------------------------------------------------------------
(* The grammar.  Each rule is an operator from the parser state to the      *)
(* parser state, its value in ret.  The alternative of an OR, and whether   *)
(* a MANY, an OPTION or an AT_LEAST_ONE goes round again, is decided on the  *)
(* tokens ahead, as the lookahead functions built by performSelfAnalysis    *)
(* decide it: the first alternative one of whose token paths matches.       *)

FirstInfix == {"Identifier", "Is", "StringOpen", "Num", "Bool", "OpenParen"}
FirstExpression == FirstInfix \cup {"OpenBracket"}
FirstStatement == FirstExpression \cup {"Not", "CommentLine"}
FirstAttribute == {"Identifier", "Num", "Not", "Name", "Tag"}

RECURSIVE SUBRULE(_, _, _)

\* rule("name")
name(p) ==
  Bind([p1 \in {CONSUME(p, "Name")} |->
  Bind([p2 \in {CONSUME(p1, "Identifier")} |->
  makeNode(p2, "name", [name |-> Image(p2, p2.ret), from |-> <<p1.ret, p2.ret>>])])])

\* rule("tag")
tag(p) ==
  Bind([p1 \in {CONSUME(p, "Tag")} |->
  Bind([p2 \in {CONSUME(p1, "Identifier")} |->
  makeNode(p2, "tag", [tag |-> Image(p2, p2.ret), from |-> <<p1.ret, p2.ret>>])])])

\* rule("variable")
variable(p, forceGenerate) ==
  Bind([p1 \in {CONSUME(p, "Identifier")} |->
  LET token == p1.ret
      nm == IF forceGenerate
              THEN Image(p1, token) \o "-" \o Line(p1, token) \o "-" \o Column(p1, token)
              ELSE Image(p1, token) IN
  Bind([p2 \in {toVariable(p1, nm, forceGenerate)} |->
  Bind([p3 \in {PushFrom(p2, p2.ret, token)} |->
  Ret(p3, p2.ret)])])])

\* rule("num")
num(p) ==
  Bind([p1 \in {CONSUME(p, "Num")} |->
  makeNode(p1, "constant", [value |-> parseFloat(Image(p1, p1.ret)), from |-> <<p1.ret>>])])

\* rule("bool")
bool(p) ==
  Bind([p1 \in {CONSUME(p, "Bool")} |->
  makeNode(p1, "constant", [value |-> BoolV(Image(p1, p1.ret) = "true"), from |-> <<p1.ret>>])])

RECURSIVE stringInterpolationMANY(_, _, _)
\* the MANY of stringInterpolation: args and from as pushed so far
stringInterpolationMANY(p, args, from) ==
  IF ~Ok(p) THEN p
  ELSE IF LA(p, 1) = "StringChars"
    THEN Bind([p1 \in {CONSUME(p, "StringChars")} |->
         Bind([p2 \in {makeNode(p1, "constant",
                                [value |-> StrV(cleanString(Image(p1, p1.ret))), from |-> <<p1.ret>>])} |->
         Bind([p3 \in {asValue(p2, p2.ret)} |->
         stringInterpolationMANY(p3, Append(args, p3.ret), Append(from, p2.ret))])])])
  ELSE IF LA(p, 1) = "StringEmbedOpen"
    THEN Bind([p1 \in {CONSUME(p, "StringEmbedOpen")} |->
         Bind([p2 \in {SUBRULE(p1, "infix", <<>>)} |->
         Bind([p3 \in {CONSUME(p2, "StringEmbedClose")} |->
         Bind([p4 \in {asValue(p3, p2.ret)} |->
         stringInterpolationMANY(p4, Append(args, p4.ret), Append(from, p2.ret))])])])])
  ELSE Ret(p, [k |-> "locals", args |-> args, from |-> from])

stringInterpolation(p) ==
  Bind([p1 \in {CONSUME(p, "StringOpen")} |->
  LET start == p1.ret IN
  Bind([p2 \in {stringInterpolationMANY(p1, <<>>, <<start>>)} |->
  Bind([p3 \in {CONSUME(p2, "StringClose")} |->
  LET args == p2.ret.args
      from == Append(p2.ret.from, p3.ret) IN
  IF ~Ok(p3) THEN p3
  ELSE IF Len(args) = 1 /\ TypeOf(p3, args[1]) = "constant" THEN Ret(p3, args[1])
  ELSE Bind([p4 \in {toVariable(p3, "concat|" \o Line(p3, start) \o "|" \o Column(p3, start), TRUE)} |->
       Bind([p5 \in {makeNode(p4, "expression",
                              [op |-> "concat", args |-> args, variable |-> p4.ret, from |-> from])} |->
       Bind([p6 \in {PushFrom(p5, p4.ret, p5.ret)} |->
       Bind([p7 \in {blockPush(p6, "expression", p5.ret)} |->
       Ret(p7, p5.ret)])])])])])])])

\* rule("value")
value(p) ==
  IF ~Ok(p) THEN p
  ELSE CASE LA(p, 1) = "StringOpen" -> SUBRULE(p, "stringInterpolation", <<>>)
         [] LA(p, 1) = "Num" -> SUBRULE(p, "num", <<>>)
         [] LA(p, 1) = "Bool" -> SUBRULE(p, "bool", <<>>)
         [] OTHER -> Raise(p, "NoViableAltException")

RECURSIVE parenthesisMANY(_, _, _)
\* the iterations of parenthesis's AT_LEAST_ONE after the first
parenthesisMANY(p, items, from) ==
  IF ~Ok(p) THEN p
  ELSE IF LA(p, 1) \in FirstExpression
    THEN Bind([p1 \in {SUBRULE(p, "expression", <<>>)} |->
         Bind([p2 \in {asValue(p1, p1.ret)} |->
         parenthesisMANY(p2, Append(items, p2.ret), Append(from, p1.ret))])])
    ELSE Ret(p, [k |-> "locals", items |-> items, from |-> from])

\* rule("parenthesis")
parenthesis(p) ==
  Bind([p1 \in {CONSUME(p, "OpenParen")} |->
  Bind([p2 \in {IF Ok(p1) /\ LA(p1, 1) \notin FirstExpression
                  THEN Raise(p1, "EarlyExitException")
                  ELSE parenthesisMANY(p1, <<>>, <<p1.ret>>)} |->
  Bind([p3 \in {CONSUME(p2, "CloseParen")} |->
  IF ~Ok(p3) THEN p3
  ELSE IF Len(p2.ret.items) = 1 THEN Ret(p3, p2.ret.items[1])
  ELSE makeNode(p3, "parenthesis",
                [items |-> p2.ret.items, from |-> Append(p2.ret.from, p3.ret)])])])])

\* rule("infixValue")
infixValue(p) ==
  IF ~Ok(p) THEN p
  ELSE CASE LA(p, 1) = "Identifier" /\ LA(p, 2) = "Dot" -> SUBRULE(p, "attributeAccess", <<>>)
         [] LA(p, 1) = "Identifier" /\ LA(p, 2) = "OpenBracket" -> SUBRULE(p, "functionRecord", <<>>)
         [] LA(p, 1) = "Is" -> SUBRULE(p, "isExpression", <<>>)
         [] LA(p, 1) = "Identifier" /\ LA(p, 2) \notin {"Dot", "OpenBracket"} -> SUBRULE(p, "variable", <<FALSE>>)
         [] LA(p, 1) \in {"StringOpen", "Num", "Bool"} -> SUBRULE(p, "value", <<>>)
         [] LA(p, 1) = "OpenParen" -> SUBRULE(p, "parenthesis", <<>>)
         [] OTHER -> Raise(p, "NoViableAltException")

RECURSIVE multiplicationMANY(_, _)
\* the MANY of multiplication: the {op, right} pairs
multiplicationMANY(p, ops) ==
  IF ~Ok(p) THEN p
  ELSE IF LA(p, 1) = "MultInfix"
    THEN Bind([p1 \in {CONSUME(p, "MultInfix")} |->
         Bind([p2 \in {SUBRULE(p1, "infixValue", <<>>)} |->
         multiplicationMANY(p2, Append(ops, [op |-> p1.ret, right |-> p2.ret]))])])
    ELSE Ret(p, ListV(ops))

RECURSIVE multiplicationLower(_, _, _, _)
\* the for loop of multiplication over ops, from the pair at index 1
multiplicationLower(p, ops, curLeft, expressions) ==
  IF ~Ok(p) THEN p
  ELSE IF ops = <<>> THEN Ret(p, [k |-> "locals", expressions |-> expressions, curVar |-> Undef])
  ELSE LET op == ops[1].op
           right == ops[1].right IN
       Bind([p1 \in {toVariable(p, "addition|" \o Line(p, op) \o "|" \o Column(p, op), TRUE)} |->
       LET curVar == p1.ret IN
       Bind([p2 \in {asValue(p1, curLeft)} |->
       Bind([p3 \in {asValue(p2, right)} |->
       Bind([p4 \in {makeNode(p3, "expression",
                              [op |-> Image(p, op), args |-> <<p2.ret, p3.ret>>,
                               variable |-> curVar, from |-> <<curLeft, op, right>>])} |->
       Bind([p5 \in {PushFrom(p4, curVar, p4.ret)} |->
       Bind([p6 \in {blockPush(p5, "expression", p4.ret)} |->
       Bind([p7 \in {multiplicationLower(p6, Tail(ops), p4.ret, Append(expressions, p4.ret))} |->
       IF Ok(p7) /\ Len(ops) = 1 THEN Ret(p7, [p7.ret EXCEPT !.curVar = curVar]) ELSE p7])])])])])])])

RECURSIVE OpsFrom(_)
\* from.push(op, right) for every pair
OpsFrom(ops) == IF ops = <<>> THEN <<>> ELSE <<ops[1].op, ops[1].right>> \o OpsFrom(Tail(ops))

\* rule("multiplication")
multiplication(p) ==
  Bind([p1 \in {SUBRULE(p, "infixValue", <<>>)} |->
  LET left == p1.ret IN
  Bind([p2 \in {multiplicationMANY(p1, <<>>)} |->
  LET ops == p2.ret.items IN
  IF ~Ok(p2) THEN p2
  ELSE IF ops = <<>> THEN Ret(p2, left)
  ELSE Bind([p3 \in {multiplicationLower(p2, ops, left, <<>>)} |->
       makeNode(p3, "multiplication",
                [expressions |-> p3.ret.expressions, variable |-> p3.ret.curVar,
                 from |-> <<left>> \o OpsFrom(ops)])])])])

RECURSIVE additionMANY(_, _)
\* the MANY of addition: the {op, right} pairs
additionMANY(p, ops) ==
  IF ~Ok(p) THEN p
  ELSE IF LA(p, 1) = "AddInfix"
    THEN Bind([p1 \in {CONSUME(p, "AddInfix")} |->
         Bind([p2 \in {SUBRULE(p1, "multiplication", <<>>)} |->
         additionMANY(p2, Append(ops, [op |-> p1.ret, right |-> p2.ret]))])])
    ELSE Ret(p, ListV(ops))

RECURSIVE additionLowerUnchained(_, _, _, _)
\* the for loop of addition with every expression made against the first left
additionLowerUnchained(p, ops, curLeft, expressions) ==
  IF ~Ok(p) THEN p
  ELSE IF ops = <<>> THEN Ret(p, [k |-> "locals", expressions |-> expressions, curVar |-> Undef])
  ELSE LET op == ops[1].op
           right == ops[1].right IN
       Bind([p1 \in {toVariable(p, "addition|" \o Line(p, op) \o "|" \o Column(p, op), TRUE)} |->
       LET curVar == p1.ret IN
       Bind([p2 \in {asValue(p1, curLeft)} |->
       Bind([p3 \in {asValue(p2, right)} |->
       Bind([p4 \in {makeNode(p3, "expression",
                              [op |-> Image(p, op), args |-> <<p2.ret, p3.ret>>,
                               variable |-> curVar, from |-> <<curLeft, op, right>>])} |->
       Bind([p5 \in {PushFrom(p4, curVar, p4.ret)} |->
       Bind([p6 \in {blockPush(p5, "expression", p4.ret)} |->
       Bind([p7 \in {additionLowerUnchained(p6, Tail(ops), curLeft, Append(expressions, p4.ret))} |->
       IF Ok(p7) /\ Len(ops) = 1 THEN Ret(p7, [p7.ret EXCEPT !.curVar = curVar]) ELSE p7])])])])])])])

RECURSIVE additionLower(_, _, _, _)
\* the for loop of addition over ops
additionLower(p, ops, curLeft, expressions) ==
  IF ~Ok(p) THEN p
  ELSE IF ops = <<>> THEN Ret(p, [k |-> "locals", expressions |-> expressions, curVar |-> Undef])
  ELSE LET op == ops[1].op
           right == ops[1].right IN
       Bind([p1 \in {toVariable(p, "addition|" \o Line(p, op) \o "|" \o Column(p, op), TRUE)} |->
       LET curVar == p1.ret IN
       Bind([p2 \in {asValue(p1, curLeft)} |->
       Bind([p3 \in {asValue(p2, right)} |->
       Bind([p4 \in {makeNode(p3, "expression",
                              [op |-> Image(p, op), args |-> <<p2.ret, p3.ret>>,
                               variable |-> curVar, from |-> <<curLeft, op, right>>])} |->
       Bind([p5 \in {PushFrom(p4, curVar, p4.ret)} |->
       Bind([p6 \in {blockPush(p5, "expression", p4.ret)} |->
       Bind([p7 \in {additionLower(p6, Tail(ops), p4.ret, Append(expressions, p4.ret))} |->
       IF Ok(p7) /\ Len(ops) = 1 THEN Ret(p7, [p7.ret EXCEPT !.curVar = curVar]) ELSE p7])])])])])])])

\* rule("addition")
addition(p) ==
  Bind([p1 \in {SUBRULE(p, "multiplication", <<>>)} |->
  LET left == p1.ret IN
  Bind([p2 \in {additionMANY(p1, <<>>)} |->
  LET ops == p2.ret.items IN
  IF ~Ok(p2) THEN p2
  ELSE IF ops = <<>> THEN Ret(p2, left)
  ELSE Bind([p3 \in {additionLower(p2, ops, left, <<>>)} |->
       makeNode(p3, "addition",
                [expressions |-> p3.ret.expressions, variable |-> p3.ret.curVar,
                 from |-> <<left>> \o OpsFrom(ops)])])])])

\* rule("infix")
infix(p) == SUBRULE(p, "addition", <<>>)

\* rule("expression")
expression(p) ==
  IF ~Ok(p) THEN p
  ELSE CASE LA(p, 1) \in FirstInfix -> SUBRULE(p, "infix", <<>>)
         [] LA(p, 1) = "OpenBracket" -> SUBRULE(p, "record", <<FALSE, "scan", BoolV(FALSE), Undef>>)
         [] OTHER -> Raise(p, "NoViableAltException")

-----------------------------------------------------------------------------
(* Record and attribute.                                                     *)

RECURSIVE recordAttrsUnflagged(_, _, _, _)
\* the for loop over an attribute array with the pipe flag left out
recordAttrsUnflagged(p, rec, attrs, nonProjecting) ==
  IF ~Ok(p) \/ attrs = <<>> THEN p
  ELSE Bind([p1 \in {SetField(p, attrs[1], "nonProjecting", FALSE)} |->
       Bind([p2 \in {PushAttribute(p1, rec, attrs[1])} |->
       Bind([p3 \in {PushFrom(p2, rec, attrs[1])} |->
       recordAttrsUnflagged(p3, rec, Tail(attrs), nonProjecting)])])])

RECURSIVE recordAttrs(_, _, _, _)
\* the for loop over an attribute array: flag, attributes.push, from.push
recordAttrs(p, rec, attrs, nonProjecting) ==
  IF ~Ok(p) \/ attrs = <<>> THEN p
  ELSE Bind([p1 \in {SetField(p, attrs[1], "nonProjecting", nonProjecting)} |->
       Bind([p2 \in {PushAttribute(p1, rec, attrs[1])} |->
       Bind([p3 \in {PushFrom(p2, rec, attrs[1])} |->
       recordAttrs(p3, rec, Tail(attrs), nonProjecting)])])])

RECURSIVE recordMANY(_, _, _, _, _)
\* the MANY of record: attributes and pipes up to the closing bracket
recordMANY(p, rec, blockKey, action, nonProjecting) ==
  IF ~Ok(p) THEN p
  ELSE IF LA(p, 1) \in FirstAttribute
    THEN Bind([p1 \in {SUBRULE(p, "attribute", <<FALSE, blockKey, action, Field(p, rec, "variable")>>)} |->
         LET got == p1.ret IN
         Bind([p2 \in {IF ~Ok(p1) \/ ~Truthy(got) THEN p1
                       ELSE IF got.k = "list" THEN recordAttrs(p1, rec, got.items, nonProjecting)
                       ELSE recordAttrs(p1, rec, <<got>>, nonProjecting)} |->
         recordMANY(p2, rec, blockKey, action, nonProjecting)])])
  ELSE IF LA(p, 1) = "Pipe"
    THEN Bind([p1 \in {CONSUME(p, "Pipe")} |->
         Bind([p2 \in {PushFrom(p1, rec, p1.ret)} |->
         recordMANY(p2, rec, blockKey, action, TRUE)])])
  ELSE p

\* the identity of a record parsed without noVar, left unmarked
recordIdentityUnmarked(p, rec, start) ==
  Bind([v1 \in {toVariable(p, "record|" \o Line(p, start) \o "|" \o Column(p, start), TRUE)} |->
  SetField(v1, rec, "variable", v1.ret)])

\* if(!noVar): record.variable = toVariable(`record|line|column`, true), marked
\* nonProjecting
recordIdentity(p, rec, start) ==
  Bind([v1 \in {toVariable(p, "record|" \o Line(p, start) \o "|" \o Column(p, start), TRUE)} |->
  Bind([v2 \in {SetField(v1, rec, "variable", v1.ret)} |->
  SetField(v2, v1.ret, "nonProjecting", TRUE)])])

\* rule("record")
record(p, noVar, blockKey, action, parent) ==
  Bind([p1 \in {CONSUME(p, "OpenBracket")} |->
  LET start == p1.ret IN
  Bind([p2 \in {makeNode(p1, "record",
                         [attributes |-> <<>>, action |-> action, scopes |-> p1.activeScopes,
                          from |-> <<start>>])} |->
  LET rec == p2.ret IN
  Bind([p3 \in {IF Truthy(parent) THEN SetField(p2, rec, "extraProjection", ListV(<<parent>>)) ELSE p2} |->
  Bind([p4 \in {IF noVar THEN p3 ELSE recordIdentity(p3, rec, start)} |->
  Bind([p5 \in {recordMANY(p4, rec, blockKey, action, FALSE)} |->
  Bind([p6 \in {CONSUME(p5, "CloseBracket")} |->
  Bind([p7 \in {PushFrom(p6, rec, p6.ret)} |->
  Bind([p8 \in {IF noVar THEN p7 ELSE blockPush(p7, blockKey, rec)} |->
  Ret(p8, rec)])])])])])])])])

\* rule("attribute")
attribute(p, noVar, blockKey, action, recordVariable) ==
  IF ~Ok(p) THEN p
  ELSE CASE LA(p, 1) = "Num" \/ (LA(p, 1) = "Identifier" /\ LA(p, 2) = "Equality")
              -> SUBRULE(p, "attributeEquality", <<noVar, blockKey, action, recordVariable>>)
         [] LA(p, 1) = "Identifier" /\ LA(p, 2) = "Comparison" -> SUBRULE(p, "attributeComparison", <<>>)
         [] LA(p, 1) = "Not" -> SUBRULE(p, "attributeNot", <<recordVariable>>)
         [] LA(p, 1) \in {"Name", "Tag"} -> SUBRULE(p, "singularAttribute", <<FALSE>>)
         [] LA(p, 1) = "Identifier" /\ LA(p, 2) \notin {"Equality", "Comparison"}
              -> SUBRULE(p, "singularAttribute", <<FALSE>>)
         [] OTHER -> Raise(p, "NoViableAltException")

\* rule("singularAttribute")
singularAttribute(p, forceGenerate) ==
  IF ~Ok(p) THEN p
  ELSE CASE LA(p, 1) = "Name" ->
              Bind([p1 \in {SUBRULE(p, "name", <<>>)} |->
              Bind([p2 \in {makeNode(p1, "constant",
                                     [value |-> StrV(Field(p1, p1.ret, "name")), from |-> <<p1.ret>>])} |->
              makeNode(p2, "attribute",
                       [attribute |-> StrV("name"), value |-> p2.ret, from |-> <<p1.ret>>])])])
         [] LA(p, 1) = "Tag" ->
              Bind([p1 \in {SUBRULE(p, "tag", <<>>)} |->
              Bind([p2 \in {makeNode(p1, "constant",
                                     [value |-> StrV(Field(p1, p1.ret, "tag")), from |-> <<p1.ret>>])} |->
              makeNode(p2, "attribute",
                       [attribute |-> StrV("tag"), value |-> p2.ret, from |-> <<p1.ret>>])])])
         [] LA(p, 1) = "Identifier" ->
              Bind([p1 \in {SUBRULE(p, "variable", <<forceGenerate>>)} |->
              makeNode(p1, "attribute",
                       [attribute |-> StrV(Field(p1, p1.ret, "name")), value |-> p1.ret,
                        from |-> <<p1.ret>>])])
         [] OTHER -> Raise(p, "NoViableAltException")

RECURSIVE attributeMutatorMANY(_, _, _, _, _)
\* the MANY of attributeMutator: one scan per intermediate dot step
attributeMutatorMANY(p, dot, entity, needsEntity, from) ==
  IF ~Ok(p) THEN p
  ELSE IF LA(p, 1) = "Identifier" /\ LA(p, 2) = "Dot"
    THEN Bind([p1 \in {CONSUME(p, "Identifier")} |->
         LET attr == p1.ret IN
         Bind([p2 \in {CONSUME(p1, "Dot")} |->
         Bind([p3 \in {toVariable(p2, Image(p, attr) \o "|" \o Line(p, attr) \o "|" \o Column(p, attr), TRUE)} |->
         LET val == p3.ret IN
         Bind([p4 \in {PushFrom(p3, val, attr)} |->
         Bind([p5 \in {makeNode(p4, "constant",
                                [value |-> StrV(Field(p4, val, "name")), from |-> <<val>>])} |->
         Bind([p6 \in {makeNode(p5, "scan",
                                [entity |-> entity, attribute |-> p5.ret, value |-> val,
                                 needsEntity |-> needsEntity, scopes |-> p.activeScopes,
                                 from |-> <<entity, dot, attr>>])} |->
         Bind([p7 \in {blockPush(p6, "scan", p6.ret)} |->
         attributeMutatorMANY(p7, dot, val, FALSE, from \o <<attr, p2.ret>>)])])])])])])])
    ELSE Ret(p, [k |-> "locals", entity |-> entity, from |-> from])

\* rule("attributeMutator")
attributeMutator(p) ==
  Bind([p1 \in {SUBRULE(p, "variable", <<FALSE>>)} |->
  Bind([p2 \in {CONSUME(p1, "Dot")} |->
  Bind([p3 \in {attributeMutatorMANY(p2, p2.ret, p1.ret, TRUE, <<p1.ret, p2.ret>>)} |->
  Bind([p4 \in {CONSUME(p3, "Identifier")} |->
  makeNode(p4, "attributeMutator",
           [attribute |-> p4.ret, parent |-> p3.ret.entity,
            from |-> Append(p3.ret.from, p4.ret)])])])])])

RECURSIVE attributeAccessMANY(_, _, _)
\* the iterations of attributeAccess's AT_LEAST_ONE
attributeAccessMANY(p, entity, needsEntity) ==
  IF ~Ok(p) THEN p
  ELSE IF LA(p, 1) = "Dot"
    THEN Bind([p1 \in {CONSUME(p, "Dot")} |->
         LET dot == p1.ret IN
         Bind([p2 \in {CONSUME(p1, "Identifier")} |->
         LET attr == p2.ret IN
         Bind([p3 \in {toVariable(p2, Image(p, attr) \o "|" \o Line(p, attr) \o "|" \o Column(p, attr), TRUE)} |->
         LET val == p3.ret IN
         Bind([p4 \in {PushFrom(p3, val, attr)} |->
         Bind([p5 \in {makeNode(p4, "constant", [value |-> StrV(Image(p, attr)), from |-> <<attr>>])} |->
         Bind([p6 \in {makeNode(p5, "scan",
                                [entity |-> entity, attribute |-> p5.ret, value |-> val,
                                 needsEntity |-> needsEntity, scopes |-> p.activeScopes,
                                 from |-> <<entity, dot, attr>>])} |->
         Bind([p7 \in {blockPush(p6, "scan", p6.ret)} |->
         attributeAccessMANY(p7, val, FALSE)])])])])])])])
    ELSE Ret(p, entity)

\* rule("attributeAccess")
attributeAccess(p) ==
  Bind([p1 \in {SUBRULE(p, "variable", <<FALSE>>)} |->
  IF Ok(p1) /\ LA(p1, 1) # "Dot" THEN Raise(p1, "EarlyExitException")
  ELSE attributeAccessMANY(p1, p1.ret, TRUE)])

\* the eve-auto-index attribute with the index of the first record, whatever
\* the record
autoIndexAttributeFirst(p, autoIndex) ==
  Bind([p1 \in {makeNode(p, "constant", [value |-> NumV(1), from |-> <<>>])} |->
  makeNode(p1, "attribute",
           [attribute |-> StrV("eve-auto-index"), value |-> p1.ret, from |-> <<>>])])

\* makeNode("attribute", {attribute: "eve-auto-index", value: makeNode("constant", ...)})
autoIndexAttribute(p, autoIndex) ==
  Bind([p1 \in {makeNode(p, "constant", [value |-> NumV(autoIndex), from |-> <<>>])} |->
  makeNode(p1, "attribute",
           [attribute |-> StrV("eve-auto-index"), value |-> p1.ret, from |-> <<>>])])

RECURSIVE attributeEqualityMANY(_, _, _, _, _, _, _, _)
\* the MANY over the second and later records of a multi-valued attribute
attributeEqualityMANY(p, noVar, blockKey, action, parent, attr, equality, acc) ==
  IF ~Ok(p) THEN p
  ELSE IF LA(p, 1) = "OpenBracket"
    THEN LET autoIndex == acc.autoIndex + 1 IN
         Bind([p1 \in {SUBRULE(p, "record", <<noVar, blockKey, action, parent>>)} |->
         LET rec == p1.ret IN
         Bind([p2 \in {autoIndexAttribute(p1, autoIndex)} |->
         Bind([p3 \in {PushAttribute(p2, rec, p2.ret)} |->
         Bind([p4 \in {asValue(p3, rec)} |->
         Bind([p5 \in {makeNode(p4, "attribute",
                                [attribute |-> attr, value |-> p4.ret,
                                 from |-> <<attr, equality, rec>>])} |->
         attributeEqualityMANY(p5, noVar, blockKey, action, parent, attr, equality,
                               [autoIndex |-> autoIndex,
                                attributes |-> Append(acc.attributes, p5.ret)])])])])])])
    ELSE Ret(p, [k |-> "locals", autoIndex |-> acc.autoIndex, attributes |-> acc.attributes])

\* rule("attributeEquality")
attributeEquality(p, noVar, blockKey, action, parent) ==
  Bind([p1 \in {IF ~Ok(p) THEN p
                ELSE IF LA(p, 1) \in {"Identifier", "Num"} THEN CONSUME(p, LA(p, 1))
                ELSE Raise(p, "NoViableAltException")} |->
  LET attributeNode == p1.ret
      attr == IF Ok(p1) /\ p1.input[attributeNode.t].type = "Num"
                THEN parseFloat(Image(p1, attributeNode))
                ELSE StrV(Image(p1, attributeNode)) IN
  Bind([p2 \in {CONSUME(p1, "Equality")} |->
  LET equality == p2.ret
      viaRecord == Ok(p2) /\ LA(p2, 1) = "OpenBracket" IN
  Bind([p3 \in {IF ~Ok(p2) THEN p2
                ELSE IF LA(p2, 1) \in FirstInfix THEN SUBRULE(p2, "infix", <<>>)
                ELSE IF viaRecord THEN SUBRULE(p2, "record", <<noVar, blockKey, action, parent>>)
                ELSE Raise(p2, "NoViableAltException")} |->
  LET result == p3.ret IN
  Bind([p4 \in {IF viaRecord
                  THEN attributeEqualityMANY(p3, noVar, blockKey, action, parent, attr, equality,
                                             [autoIndex |-> 1, attributes |-> <<>>])
                  ELSE Ret(p3, [k |-> "locals", autoIndex |-> 1, attributes |-> <<>>])} |->
  Bind([p5 \in {IF Ok(p4) /\ p4.ret.autoIndex > 1
                  THEN Bind([a1 \in {autoIndexAttribute(p4, 1)} |->
                       PushAttribute(a1, result, a1.ret)])
                  ELSE p4} |->
  Bind([p6 \in {asValue(p5, result)} |->
  Bind([p7 \in {makeNode(p6, "attribute",
                         [attribute |-> attr, value |-> p6.ret,
                          from |-> <<attributeNode, equality, result>>])} |->
  Ret(p7, ListV(Append(p4.ret.attributes, p7.ret)))])])])])])])])

\* rule("attributeComparison")
attributeComparison(p) ==
  Bind([p1 \in {CONSUME(p, "Identifier")} |->
  LET attr == p1.ret IN
  Bind([p2 \in {CONSUME(p1, "Comparison")} |->
  LET comparator == p2.ret IN
  Bind([p3 \in {SUBRULE(p2, "expression", <<>>)} |->
  LET result == p3.ret IN
  Bind([p4 \in {toVariable(p3, "attribute|" \o Line(p, attr) \o "|" \o Column(p, attr), TRUE)} |->
  LET var == p4.ret IN
  Bind([p5 \in {asValue(p4, var)} |->
  Bind([p6 \in {asValue(p5, result)} |->
  Bind([p7 \in {makeNode(p6, "expression",
                         [op |-> Image(p, comparator), args |-> <<p5.ret, p6.ret>>,
                          from |-> <<attr, comparator, result>>])} |->
  Bind([p8 \in {PushFrom(p7, var, p7.ret)} |->
  Bind([p9 \in {blockPush(p8, "expression", p7.ret)} |->
  makeNode(p9, "attribute",
           [attribute |-> StrV(Image(p, attr)), value |-> var,
            from |-> <<attr, comparator, p7.ret>>])])])])])])])])])])

\* rule("attributeNot")
attributeNot(p, recordVariable) ==
  Bind([p1 \in {pushBlock(p, "")} |->
  LET blk == p1.ret IN
  Bind([p2 \in {IF Ok(p1) THEN [p1 EXCEPT !.blocks[blk.b].type = "not"] ELSE p1} |->
  Bind([p3 \in {CONSUME(p2, "Not")} |->
  Bind([p4 \in {CONSUME(p3, "OpenParen")} |->
  Bind([p5 \in {IF ~Ok(p4) THEN p4
                ELSE IF LA(p4, 1) = "Identifier" /\ LA(p4, 2) = "Comparison" THEN SUBRULE(p4, "attributeComparison", <<>>)
                ELSE IF LA(p4, 1) \in {"Name", "Tag", "Identifier"} THEN SUBRULE(p4, "singularAttribute", <<TRUE>>)
                ELSE Raise(p4, "NoViableAltException")} |->
  LET attr == p5.ret IN
  Bind([p6 \in {CONSUME(p5, "CloseParen")} |->
  Bind([p7 \in {makeNode(p6, "constant", [value |-> Field(p6, attr, "attribute"), from |-> <<attr>>])} |->
  Bind([p8 \in {makeNode(p7, "scan",
                         [entity |-> recordVariable, attribute |-> p7.ret,
                          value |-> Field(p7, attr, "value"), needsEntity |-> TRUE,
                          scopes |-> p.activeScopes, from |-> <<attr>>])} |->
  Bind([p9 \in {IF ~Ok(p8) THEN p8
                ELSE IF ~IsNode(recordVariable)
                  THEN Fatal(p8, "TypeError: cannot read property name of undefined")
                  ELSE [p8 EXCEPT !.blocks[blk.b].variables =
                                     PropSet(@, Field(p8, recordVariable, "name"), recordVariable)]} |->
  Bind([p10 \in {IF Ok(p9)
                   THEN [PBpush(p9, blk.b, "scan", p8.ret)
                           EXCEPT !.blocks[blk.b].from = ListV(<<p3.ret, p4.ret, attr, p6.ret>>)]
                   ELSE p9} |->
  Bind([p11 \in {popBlock(p10)} |->
  Bind([p12 \in {blockPush(p11, "scan", blk)} |->
  Ret(p12, Undef)])])])])])])])])])])])])

\* info[key] after the for loop of functionRecord: the value of the last
\* attribute whose attribute is key
RECURSIVE LookupInfo(_, _, _)
LookupInfo(p, attrs, key) ==
  IF attrs = <<>> THEN Undef
  ELSE LET last == attrs[Len(attrs)]
       IN IF Field(p, last, "attribute") = StrV(key) THEN Field(p, last, "value")
          ELSE LookupInfo(p, SubSeq(attrs, 1, Len(attrs) - 1), key)

\* rule("functionRecord")
functionRecord(p) ==
  Bind([p1 \in {CONSUME(p, "Identifier")} |->
  LET nm == p1.ret IN
  Bind([p2 \in {SUBRULE(p1, "record", <<TRUE, "scan", BoolV(FALSE), Undef>>)} |->
  LET rec == p2.ret IN
  IF ~Ok(p2) THEN p2
  ELSE IF Image(p, nm) = "lookup"
    THEN LET attrs == Field(p2, rec, "attributes") IN
         Bind([p3 \in {makeNode(p2, "scan",
                                [entity |-> LookupInfo(p2, attrs, "record"),
                                 attribute |-> LookupInfo(p2, attrs, "attribute"),
                                 value |-> LookupInfo(p2, attrs, "value"),
                                 node |-> LookupInfo(p2, attrs, "node"),
                                 scopes |-> p.activeScopes, from |-> <<nm, rec>>])} |->
         Bind([p4 \in {blockPush(p3, "scan", p3.ret)} |->
         Ret(p4, p3.ret)])])
    ELSE Bind([p3 \in {toVariable(p2, "return|" \o Line(p, nm) \o "|" \o Column(p, nm), TRUE)} |->
         Bind([p4 \in {makeNode(p3, "functionRecord",
                                [op |-> Image(p, nm), record |-> rec, variable |-> p3.ret,
                                 from |-> <<nm, rec>>])} |->
         Bind([p5 \in {PushFrom(p4, p3.ret, p4.ret)} |->
         Bind([p6 \in {blockPush(p5, "expression", p4.ret)} |->
         Ret(p6, p4.ret)])])])])])])

-----------------------------------------------------------------------------
(* Comparison, special forms, if ... then.                                   *)

RECURSIVE comparisonMANY(_, _)
\* the MANY of comparison: the {comparator, value} pairs
comparisonMANY(p, rights) ==
  IF ~Ok(p) THEN p
  ELSE IF LA(p, 1) \in {"Comparison", "Equality"}
    THEN Bind([p1 \in {CONSUME(p, LA(p, 1))} |->
         Bind([p2 \in {IF ~Ok(p1) THEN p1
                       ELSE IF LA(p1, 1) \in FirstExpression THEN SUBRULE(p1, "expression", <<>>)
                       ELSE IF LA(p1, 1) = "If" THEN SUBRULE(p1, "ifExpression", <<>>)
                       ELSE Raise(p1, "NoViableAltException")} |->
         comparisonMANY(p2, Append(rights, [comparator |-> p1.ret, value |-> p2.ret]))])])
    ELSE Ret(p, ListV(rights))

\* one turn of the for loop of comparison; ret is the expression made, Undef for none
comparisonPair(p, nonFiltering, left, curLeft, comparator, val) ==
  IF ~Ok(p) THEN p
  ELSE IF nonFiltering
    THEN Bind([p1 \in {toVariable(p, "comparison|" \o Line(p, comparator) \o "|" \o Column(p, comparator), TRUE)} |->
         Bind([p2 \in {asValue(p1, curLeft)} |->
         Bind([p3 \in {asValue(p2, val)} |->
         Bind([p4 \in {makeNode(p3, "expression",
                                [variable |-> p1.ret, op |-> Image(p, comparator),
                                 args |-> <<p2.ret, p3.ret>>, from |-> <<curLeft, comparator, val>>])} |->
         Bind([p5 \in {PushFrom(p4, p1.ret, p4.ret)} |->
         Bind([p6 \in {blockPush(p5, "expression", p4.ret)} |->
         Ret(p6, p4.ret)])])])])])])
  ELSE IF p.input[comparator.t].type = "Equality"
    THEN IF TypeOf(p, val) = "ifExpression"
           THEN Bind([p1 \in {ifOutputs(p, left)} |->
                Bind([p2 \in {SetField(p1, val, "outputs", p1.ret)} |->
                Bind([p3 \in {blockPush(p2, "scan", val)} |->
                Ret(p3, Undef)])])])
         ELSE IF TypeOf(p, val) = "functionRecord" /\ TypeOf(p, curLeft) = "parenthesis"
           THEN Bind([p1 \in {asValues(p, Field(p, curLeft, "items"), <<>>)} |->
                Bind([p2 \in {SetField(p1, val, "returns", p1.ret)} |->
                Bind([p3 \in {asValue(p2, p1.ret.items[1])} |->
                Bind([p4 \in {asValue(p3, val)} |->
                Bind([p5 \in {blockPush(p4, "equality", <<p3.ret, p4.ret>>)} |->
                Ret(p5, Undef)])])])])])
         ELSE IF TypeOf(p, curLeft) = "parenthesis"
           THEN Fatal(p, "Left hand parenthesis without an if or function on the right")
         ELSE Bind([p1 \in {asValue(p, curLeft)} |->
              Bind([p2 \in {asValue(p1, val)} |->
              Bind([p3 \in {blockPush(p2, "equality", <<p1.ret, p2.ret>>)} |->
              Ret(p3, Undef)])])])
  ELSE Bind([p1 \in {asValue(p, curLeft)} |->
       Bind([p2 \in {asValue(p1, val)} |->
       Bind([p3 \in {makeNode(p2, "expression",
                              [op |-> Image(p, comparator), args |-> <<p1.ret, p2.ret>>,
                               from |-> <<curLeft, comparator, val>>])} |->
       Bind([p4 \in {blockPush(p3, "expression", p3.ret)} |->
       Ret(p4, p3.ret)])])])])

RECURSIVE comparisonLower(_, _, _, _, _, _)
\* the for loop of comparison over rights
comparisonLower(p, nonFiltering, left, curLeft, rights, expressions) ==
  IF ~Ok(p) THEN p
  ELSE IF rights = <<>> THEN Ret(p, ListV(expressions))
  ELSE Bind([p1 \in {comparisonPair(p, nonFiltering, left, curLeft, rights[1].comparator, rights[1].value)} |->
       comparisonLower(p1, nonFiltering, left, rights[1].value, Tail(rights),
                       IF Truthy(p1.ret) THEN Append(expressions, p1.ret) ELSE expressions)])

RECURSIVE RightsFrom(_)
\* from.push(comparator, value) for every pair
RightsFrom(rights) ==
  IF rights = <<>> THEN <<>>
  ELSE <<rights[1].comparator, rights[1].value>> \o RightsFrom(Tail(rights))

\* rule("comparison")
comparison(p, nonFiltering) ==
  Bind([p1 \in {SUBRULE(p, "expression", <<>>)} |->
  LET left == p1.ret IN
  Bind([p2 \in {comparisonMANY(p1, <<>>)} |->
  LET rights == p2.ret.items IN
  IF ~Ok(p2) THEN p2
  ELSE IF rights = <<>> THEN Ret(p2, left)
  ELSE Bind([p3 \in {comparisonLower(p2, nonFiltering, left, left, rights, <<>>)} |->
       makeNode(p3, "comparison",
                [expressions |-> p3.ret.items, from |-> <<left>> \o RightsFrom(rights)])])])])

\* rule("statement")
statement(p) ==
  IF ~Ok(p) THEN p
  ELSE CASE LA(p, 1) \in FirstExpression -> SUBRULE(p, "comparison", <<FALSE>>)
         [] LA(p, 1) = "Not" -> SUBRULE(p, "notStatement", <<>>)
         [] LA(p, 1) = "CommentLine" -> CONSUME(p, "CommentLine")
         [] OTHER -> Raise(p, "NoViableAltException")

RECURSIVE statementsMANY(_, _, _)
\* SUBRULE(statement) while a statement can start; from gets every result
\* when guarded is FALSE and only the truthy ones when it is TRUE
statementsMANY(p, from, guarded) ==
  IF ~Ok(p) THEN p
  ELSE IF LA(p, 1) \in FirstStatement
    THEN Bind([p1 \in {SUBRULE(p, "statement", <<>>)} |->
         statementsMANY(p1, IF guarded /\ ~Truthy(p1.ret) THEN from ELSE Append(from, p1.ret),
                        guarded)])
    ELSE Ret(p, ListV(from))

\* rule("notStatement")
notStatement(p) ==
  Bind([p1 \in {pushBlock(p, "")} |->
  LET blk == p1.ret IN
  Bind([p2 \in {IF Ok(p1) THEN [p1 EXCEPT !.blocks[blk.b].type = "not"] ELSE p1} |->
  Bind([p3 \in {CONSUME(p2, "Not")} |->
  Bind([p4 \in {CONSUME(p3, "OpenParen")} |->
  Bind([p5 \in {statementsMANY(p4, <<p3.ret, p4.ret>>, FALSE)} |->
  Bind([p6 \in {CONSUME(p5, "CloseParen")} |->
  Bind([p7 \in {popBlock(p6)} |->
  Bind([p8 \in {IF Ok(p7)
                  THEN [p7 EXCEPT !.blocks[blk.b].from = ListV(Append(p5.ret.items, p6.ret))]
                  ELSE p7} |->
  Bind([p9 \in {blockPush(p8, "scan", blk)} |->
  Ret(p9, Undef)])])])])])])])])])

RECURSIVE isExpressionFor(_, _, _)
\* for(let expression of comparison.expressions)
isExpressionFor(p, exprs, acc) ==
  IF ~Ok(p) THEN p
  ELSE IF exprs = <<>> THEN Ret(p, acc)
  ELSE Bind([p1 \in {asValue(p, exprs[1])} |->
       isExpressionFor(p1, Tail(exprs),
                       [k |-> "locals", from |-> Append(acc.from, exprs[1]),
                        expressions |-> Append(acc.expressions, p1.ret)])])

RECURSIVE isExpressionMANY(_, _)
\* the MANY of isExpression
isExpressionMANY(p, acc) ==
  IF ~Ok(p) THEN p
  ELSE IF LA(p, 1) \in FirstExpression
    THEN Bind([p1 \in {SUBRULE(p, "comparison", <<TRUE>>)} |->
         LET exprs == Field(p1, p1.ret, "expressions") IN
         Bind([p2 \in {IF ~Ok(p1) THEN p1
                       ELSE IF ~HasField(p1, p1.ret, "expressions")
                         THEN Fatal(p1, "TypeError: comparison.expressions is not iterable")
                         ELSE isExpressionFor(p1, exprs, acc)} |->
         isExpressionMANY(p2, p2.ret)])])
    ELSE Ret(p, acc)

\* rule("isExpression")
isExpression(p) ==
  Bind([p1 \in {CONSUME(p, "Is")} |->
  LET op == p1.ret IN
  Bind([p2 \in {CONSUME(p1, "OpenParen")} |->
  Bind([p3 \in {isExpressionMANY(p2, [k |-> "locals", from |-> <<op, p2.ret>>, expressions |-> <<>>])} |->
  Bind([p4 \in {CONSUME(p3, "CloseParen")} |->
  Bind([p5 \in {toVariable(p4, "is|" \o Line(p, op) \o "|" \o Column(p, op), TRUE)} |->
  Bind([p6 \in {makeNode(p5, "expression",
                         [variable |-> p5.ret, op |-> "and", args |-> p3.ret.expressions,
                          from |-> Append(p3.ret.from, p4.ret)])} |->
  Bind([p7 \in {PushFrom(p6, p5.ret, p6.ret)} |->
  Bind([p8 \in {blockPush(p7, "expression", p6.ret)} |->
  Ret(p8, p6.ret)])])])])])])])])

RECURSIVE ifExpressionMANY(_, _)
\* the MANY of ifExpression: further if and else-if branches
ifExpressionMANY(p, branches) ==
  IF ~Ok(p) THEN p
  ELSE IF LA(p, 1) = "If"
    THEN Bind([p1 \in {SUBRULE(p, "ifBranch", <<>>)} |->
         ifExpressionMANY(p1, Append(branches, p1.ret))])
  ELSE IF LA(p, 1) = "Else" /\ LA(p, 2) = "If"
    THEN Bind([p1 \in {SUBRULE(p, "elseIfBranch", <<>>)} |->
         ifExpressionMANY(p1, Append(branches, p1.ret))])
  ELSE Ret(p, ListV(branches))

\* rule("ifExpression"): from is the branches array itself
ifExpression(p) ==
  Bind([p1 \in {SUBRULE(p, "ifBranch", <<>>)} |->
  Bind([p2 \in {ifExpressionMANY(p1, <<p1.ret>>)} |->
  Bind([p3 \in {IF Ok(p2) /\ LA(p2, 1) = "Else"
                  THEN Bind([e1 \in {SUBRULE(p2, "elseBranch", <<>>)} |->
                       Ret(e1, ListV(Append(p2.ret.items, e1.ret)))])
                  ELSE p2} |->
  makeNode(p3, "ifExpression", [branches |-> p3.ret.items, from |-> p3.ret.items])])])])

\* rule("ifBranch")
ifBranch(p) ==
  Bind([p1 \in {pushBlock(p, "")} |->
  LET blk == p1.ret IN
  Bind([p2 \in {CONSUME(p1, "If")} |->
  Bind([p3 \in {IF Ok(p2) /\ LA(p2, 1) \notin FirstStatement
                  THEN Raise(p2, "EarlyExitException")
                  ELSE statementsMANY(p2, <<p2.ret>>, TRUE)} |->
  Bind([p4 \in {CONSUME(p3, "Then")} |->
  Bind([p5 \in {SUBRULE(p4, "expression", <<>>)} |->
  LET from == Append(Append(p3.ret.items, p4.ret), p5.ret) IN
  Bind([p6 \in {popBlock(p5)} |->
  Bind([p7 \in {ifOutputs(p6, p5.ret)} |->
  makeNode(p7, "ifBranch",
           [block |-> blk, outputs |-> p7.ret, exclusive |-> FALSE, from |-> from])])])])])])])])

\* rule("elseIfBranch")
elseIfBranch(p) ==
  Bind([p1 \in {pushBlock(p, "")} |->
  LET blk == p1.ret IN
  Bind([p2 \in {CONSUME(p1, "Else")} |->
  Bind([p3 \in {CONSUME(p2, "If")} |->
  Bind([p4 \in {IF Ok(p3) /\ LA(p3, 1) \notin FirstStatement
                  THEN Raise(p3, "EarlyExitException")
                  ELSE statementsMANY(p3, <<p2.ret, p3.ret>>, FALSE)} |->
  Bind([p5 \in {CONSUME(p4, "Then")} |->
  Bind([p6 \in {SUBRULE(p5, "expression", <<>>)} |->
  LET from == Append(Append(p4.ret.items, p5.ret), p6.ret) IN
  Bind([p7 \in {popBlock(p6)} |->
  Bind([p8 \in {ifOutputs(p7, p6.ret)} |->
  makeNode(p8, "ifBranch",
           [block |-> blk, outputs |-> p8.ret, exclusive |-> TRUE, from |-> from])])])])])])])])])

\* an else branch that does not exclude the branches before it
elseBranchInclusive(p) ==
  Bind([p1 \in {pushBlock(p, "")} |->
  LET blk == p1.ret IN
  Bind([p2 \in {CONSUME(p1, "Else")} |->
  Bind([p3 \in {SUBRULE(p2, "expression", <<>>)} |->
  Bind([p4 \in {popBlock(p3)} |->
  Bind([p5 \in {ifOutputs(p4, p3.ret)} |->
  makeNode(p5, "ifBranch",
           [block |-> blk, outputs |-> p5.ret, exclusive |-> FALSE,
            from |-> <<p2.ret, p3.ret>>])])])])])])

\* rule("elseBranch")
elseBranch(p) ==
  Bind([p1 \in {pushBlock(p, "")} |->
  LET blk == p1.ret IN
  Bind([p2 \in {CONSUME(p1, "Else")} |->
  Bind([p3 \in {SUBRULE(p2, "expression", <<>>)} |->
  Bind([p4 \in {popBlock(p3)} |->
  Bind([p5 \in {ifOutputs(p4, p3.ret)} |->
  makeNode(p5, "ifBranch",
           [block |-> blk, outputs |-> p5.ret, exclusive |-> TRUE,
            from |-> <<p2.ret, p3.ret>>])])])])])])

-----------------------------------------------------------------------------
(* Sections and action statements.                                           *)

RECURSIVE scopeDeclarationMANY(_, _)
\* the iterations of scopeDeclaration's AT_LEAST_ONE
scopeDeclarationMANY(p, scopes) ==
  IF ~Ok(p) THEN p
  ELSE IF LA(p, 1) = "Name"
    THEN Bind([p1 \in {SUBRULE(p, "name", <<>>)} |->
         scopeDeclarationMANY(p1, Append(scopes, Field(p1, p1.ret, "name")))])
    ELSE Ret(p, ListV(scopes))

\* rule("scopeDeclaration")
scopeDeclaration(p) ==
  IF ~Ok(p) THEN p
  ELSE CASE LA(p, 1) = "OpenParen" ->
              Bind([p1 \in {CONSUME(p, "OpenParen")} |->
              Bind([p2 \in {IF LA(p1, 1) # "Name" THEN Raise(p1, "EarlyExitException")
                            ELSE scopeDeclarationMANY(p1, <<>>)} |->
              Bind([p3 \in {CONSUME(p2, "CloseParen")} |->
              Ret(p3, p2.ret)])])])
         [] LA(p, 1) = "Name" ->
              Bind([p1 \in {SUBRULE(p, "name", <<>>)} |->
              Ret(p1, ListV(<<Field(p1, p1.ret, "name")>>))])
         [] OTHER -> Raise(p, "NoViableAltException")

RECURSIVE matchSectionMANY(_, _, _)
\* the MANY of matchSection
matchSectionMANY(p, scopes, statements) ==
  IF ~Ok(p) THEN p
  ELSE IF LA(p, 1) \in FirstStatement
    THEN Bind([p1 \in {SUBRULE(p, "statement", <<>>)} |->
         Bind([p2 \in {IF Ok(p1) /\ Truthy(p1.ret) THEN SetField(p1, p1.ret, "scopes", scopes) ELSE p1} |->
         matchSectionMANY(p2, scopes,
                          IF Truthy(p1.ret) THEN Append(statements, p1.ret) ELSE statements)])])
    ELSE Ret(p, [k |-> "obj", type |-> "matchSection", statements |-> statements,
                 scopes |-> scopes])

\* rule("matchSection")
matchSection(p) ==
  Bind([p1 \in {CONSUME(p, "Match")} |->
  Bind([p2 \in {IF Ok(p1) /\ (LA(p1, 1) = "Name" \/ (LA(p1, 1) = "OpenParen" /\ LA(p1, 2) = "Name"))
                  THEN SUBRULE(p1, "scopeDeclaration", <<>>)
                  ELSE Ret(p1, ListV(<<"session">>))} |->
  Bind([p3 \in {IF Ok(p2) THEN [p2 EXCEPT !.activeScopes = p2.ret] ELSE p2} |->
  matchSectionMANY(p3, p2.ret, <<>>)])])])

RECURSIVE actionSectionMANY(_, _, _, _)
\* the MANY of actionSection
actionSectionMANY(p, actionKey, scopes, statements) ==
  IF ~Ok(p) THEN p
  ELSE IF LA(p, 1) \in {"OpenBracket", "Identifier", "CommentLine"}
    THEN Bind([p1 \in {SUBRULE(p, "actionStatement", <<actionKey>>)} |->
         Bind([p2 \in {IF Ok(p1) /\ Truthy(p1.ret) THEN SetField(p1, p1.ret, "scopes", scopes) ELSE p1} |->
         actionSectionMANY(p2, actionKey, scopes,
                           IF Truthy(p1.ret) THEN Append(statements, p1.ret) ELSE statements)])])
    ELSE Ret(p, [k |-> "obj", type |-> "actionSection", statements |-> statements,
                 scopes |-> scopes])

\* rule("actionSection")
actionSection(p) ==
  Bind([p1 \in {CONSUME(p, "Action")} |->
  LET actionKey == Image(p, p1.ret) IN
  Bind([p2 \in {IF Ok(p1) /\ LA(p1, 1) \in {"OpenParen", "Name"}
                  THEN SUBRULE(p1, "scopeDeclaration", <<>>)
                  ELSE Ret(p1, ListV(<<"session">>))} |->
  Bind([p3 \in {IF Ok(p2) THEN [p2 EXCEPT !.activeScopes = p2.ret] ELSE p2} |->
  actionSectionMANY(p3, actionKey, p2.ret, <<>>)])])])

\* rule("actionStatement")
actionStatement(p, actionKey) ==
  IF ~Ok(p) THEN p
  ELSE CASE LA(p, 1) = "OpenBracket" -> SUBRULE(p, "record", <<FALSE, actionKey, StrV("+="), Undef>>)
         [] LA(p, 1) = "Identifier" /\ LA(p, 2) = "Equality" -> SUBRULE(p, "actionEqualityRecord", <<actionKey>>)
         [] LA(p, 1) = "Identifier" /\ LA(p, 2) \in {"Set", "Merge", "Mutate", "Dot"} ->
              Bind([p1 \in {SUBRULE(p, "actionOperation", <<actionKey>>)} |->
              Bind([p2 \in {blockPush(p1, actionKey, p1.ret)} |->
              Ret(p2, p1.ret)])])
         [] LA(p, 1) = "CommentLine" -> CONSUME(p, "CommentLine")
         [] OTHER -> Raise(p, "NoViableAltException")

\* rule("actionOperation")
actionOperation(p, actionKey) ==
  IF ~Ok(p) THEN p
  ELSE CASE LA(p, 1) = "Identifier" /\ LA(p, 2) \in {"Set", "Merge", "Mutate"} -> SUBRULE(p, "recordOperation", <<>>)
         [] LA(p, 1) = "Identifier" /\ LA(p, 2) = "Dot" -> SUBRULE(p, "attributeOperation", <<actionKey>>)
         [] OTHER -> Raise(p, "NoViableAltException")

\* makeNode("action", ...) of the := and += / -= alternatives of attributeOperation
attributeOperationAction(p, mutator, op, val) ==
  Bind([p1 \in {asValue(p, Field(p, mutator, "parent"))} |->
  Bind([p2 \in {asValue(p1, val)} |->
  makeNode(p2, "action",
           [action |-> StrV(Image(p, op)), entity |-> p1.ret,
            attribute |-> StrV(Image(p, Field(p, mutator, "attribute"))),
            value |-> p2.ret, from |-> <<mutator, op, val>>])])])

\* rule("attributeOperation")
attributeOperation(p, actionKey) ==
  Bind([p0 \in {SUBRULE(p, "attributeMutator", <<>>)} |->
  LET mutator == p0.ret
      attr == Field(p0, mutator, "attribute")
      parent == Field(p0, mutator, "parent") IN
  IF ~Ok(p0) THEN p0
  ELSE CASE LA(p0, 1) = "Merge" ->
              Bind([p1 \in {toVariable(p0, Image(p, attr) \o "|" \o Line(p, attr) \o "|" \o Column(p, attr), TRUE)} |->
              LET var == p1.ret IN
              \* attribute.name: a token has no name
              Bind([p2 \in {makeNode(p1, "constant", [value |-> Undef, from |-> <<attr>>])} |->
              Bind([p3 \in {makeNode(p2, "scan",
                                     [entity |-> parent, attribute |-> p2.ret, value |-> var,
                                      scopes |-> p.activeScopes, from |-> <<mutator>>])} |->
              Bind([p4 \in {PushFrom(p3, var, p3.ret)} |->
              Bind([p5 \in {blockPush(p4, "scan", p3.ret)} |->
              Bind([p6 \in {CONSUME(p5, "Merge")} |->
              Bind([p7 \in {SUBRULE(p6, "record", <<TRUE, "scan", BoolV(FALSE), Undef>>)} |->
              Bind([p8 \in {SetField(p7, p7.ret, "variable", var)} |->
              Bind([p9 \in {SetField(p8, p7.ret, "action", StrV("<-"))} |->
              Ret(p9, p7.ret)])])])])])])])])])
         [] LA(p0, 1) = "Set" /\ LA(p0, 2) = "None" ->
              Bind([p1 \in {CONSUME(p0, "Set")} |->
              Bind([p2 \in {CONSUME(p1, "None")} |->
              Bind([p3 \in {asValue(p2, parent)} |->
              makeNode(p3, "action",
                       [action |-> StrV("erase"), entity |-> p3.ret,
                        attribute |-> StrV(Image(p, attr)),
                        from |-> <<mutator, p1.ret, p2.ret>>])])])])
         [] LA(p0, 1) = "Set" /\ LA(p0, 2) \in FirstInfix ->
              Bind([p1 \in {CONSUME(p0, "Set")} |->
              Bind([p2 \in {SUBRULE(p1, "infix", <<>>)} |->
              attributeOperationAction(p2, mutator, p1.ret, p2.ret)])])
         [] LA(p0, 1) = "Set" /\ LA(p0, 2) = "OpenBracket" ->
              Bind([p1 \in {CONSUME(p0, "Set")} |->
              Bind([p2 \in {SUBRULE(p1, "record", <<FALSE, actionKey, StrV("+="), Undef>>)} |->
              attributeOperationAction(p2, mutator, p1.ret, p2.ret)])])
         [] LA(p0, 1) = "Mutate" ->
              Bind([p1 \in {CONSUME(p0, "Mutate")} |->
              Bind([p2 \in {SUBRULE(p1, "actionAttributeExpression", <<actionKey, StrV(Image(p, p1.ret))>>)} |->
              attributeOperationAction(p2, mutator, p1.ret, p2.ret)])])
         [] OTHER -> Raise(p0, "NoViableAltException")])

\* makeNode("action", ...) of the += / -= tag and name alternatives of recordOperation
recordOperationAction(p, var, op, attr, key, item) ==
  Bind([p1 \in {asValue(p, var)} |->
  Bind([p2 \in {makeNode(p1, "constant", [value |-> StrV(Field(p1, item, key)), from |-> <<item>>])} |->
  makeNode(p2, "action",
           [action |-> StrV(Image(p, op)), entity |-> p1.ret, attribute |-> StrV(attr),
            value |-> p2.ret, from |-> <<var, op, item>>])])])

\* rule("recordOperation")
recordOperation(p) ==
  Bind([p0 \in {SUBRULE(p, "variable", <<FALSE>>)} |->
  LET var == p0.ret IN
  IF ~Ok(p0) THEN p0
  ELSE CASE LA(p0, 1) = "Set" ->
              Bind([p1 \in {CONSUME(p0, "Set")} |->
              Bind([p2 \in {CONSUME(p1, "None")} |->
              Bind([p3 \in {asValue(p2, var)} |->
              makeNode(p3, "action",
                       [action |-> StrV("erase"), entity |-> p3.ret,
                        from |-> <<var, p1.ret, p2.ret>>])])])])
         [] LA(p0, 1) = "Merge" ->
              Bind([p1 \in {CONSUME(p0, "Merge")} |->
              Bind([p2 \in {SUBRULE(p1, "record", <<TRUE, "scan", BoolV(FALSE), Undef>>)} |->
              Bind([p3 \in {SetField(p2, p2.ret, "needsEntity", TRUE)} |->
              Bind([p4 \in {SetField(p3, p2.ret, "variable", var)} |->
              Bind([p5 \in {SetField(p4, var, "nonProjecting", TRUE)} |->
              Bind([p6 \in {SetField(p5, p2.ret, "action", StrV("<-"))} |->
              Ret(p6, p2.ret)])])])])])])
         [] LA(p0, 1) = "Mutate" /\ LA(p0, 2) = "Tag" ->
              Bind([p1 \in {CONSUME(p0, "Mutate")} |->
              Bind([p2 \in {SUBRULE(p1, "tag", <<>>)} |->
              recordOperationAction(p2, var, p1.ret, "tag", "tag", p2.ret)])])
         [] LA(p0, 1) = "Mutate" /\ LA(p0, 2) = "Name" ->
              Bind([p1 \in {CONSUME(p0, "Mutate")} |->
              Bind([p2 \in {SUBRULE(p1, "name", <<>>)} |->
              recordOperationAction(p2, var, p1.ret, "name", "name", p2.ret)])])
         [] OTHER -> Raise(p0, "NoViableAltException")])

\* rule("actionAttributeExpression")
actionAttributeExpression(p, actionKey, action) ==
  IF ~Ok(p) THEN p
  ELSE CASE LA(p, 1) = "None" -> CONSUME(p, "None")
         [] LA(p, 1) = "Tag" -> SUBRULE(p, "tag", <<>>)
         [] LA(p, 1) = "Name" -> SUBRULE(p, "name", <<>>)
         [] LA(p, 1) = "OpenBracket" -> SUBRULE(p, "record", <<FALSE, actionKey, action, Undef>>)
         [] LA(p, 1) \in FirstInfix -> SUBRULE(p, "infix", <<>>)
         [] OTHER -> Raise(p, "NoViableAltException")

\* rule("actionEqualityRecord")
actionEqualityRecord(p, actionKey) ==
  Bind([p1 \in {SUBRULE(p, "variable", <<FALSE>>)} |->
  Bind([p2 \in {CONSUME(p1, "Equality")} |->
  Bind([p3 \in {SUBRULE(p2, "record", <<TRUE, actionKey, StrV("+="), Undef>>)} |->
  Bind([p4 \in {SetField(p3, p3.ret, "variable", p1.ret)} |->
  Bind([p5 \in {blockPush(p4, actionKey, p3.ret)} |->
  Ret(p5, p3.ret)])])])])])

\* rule("section")
section(p) ==
  IF ~Ok(p) THEN p
  ELSE CASE LA(p, 1) = "Match" -> SUBRULE(p, "matchSection", <<>>)
         [] LA(p, 1) = "Action" -> SUBRULE(p, "actionSection", <<>>)
         [] LA(p, 1) = "CommentLine" -> CONSUME(p, "CommentLine")
         [] OTHER -> Raise(p, "NoViableAltException")

RECURSIVE codeBlockMANY(_)
\* the MANY of codeBlock
codeBlockMANY(p) ==
  IF ~Ok(p) THEN p
  ELSE IF LA(p, 1) \in {"Match", "Action", "CommentLine"} THEN codeBlockMANY(SUBRULE(p, "section", <<>>))
  ELSE p

\* rule("codeBlock")
codeBlock(p, blockId) ==
  Bind([p1 \in {pushBlock(p, blockId)} |->
  Bind([p2 \in {codeBlockMANY(p1)} |->
  popBlock(p2)])])

\* self.SUBRULE(self.rule, args): the rule invoked with the arguments given
SUBRULE(p, rule, args) ==
  CASE rule = "name" -> name(p)
    [] rule = "tag" -> tag(p)
    [] rule = "variable" -> variable(p, args[1])
    [] rule = "num" -> num(p)
    [] rule = "bool" -> bool(p)
    [] rule = "stringInterpolation" -> stringInterpolation(p)
    [] rule = "value" -> value(p)
    [] rule = "parenthesis" -> parenthesis(p)
    [] rule = "infixValue" -> infixValue(p)
    [] rule = "multiplication" -> multiplication(p)
    [] rule = "addition" -> addition(p)
    [] rule = "infix" -> infix(p)
    [] rule = "expression" -> expression(p)
    [] rule = "record" -> record(p, args[1], args[2], args[3], args[4])
    [] rule = "attribute" -> attribute(p, args[1], args[2], args[3], args[4])
    [] rule = "singularAttribute" -> singularAttribute(p, args[1])
    [] rule = "attributeMutator" -> attributeMutator(p)
    [] rule = "attributeAccess" -> attributeAccess(p)
    [] rule = "attributeEquality" -> attributeEquality(p, args[1], args[2], args[3], args[4])
    [] rule = "attributeComparison" -> attributeComparison(p)
    [] rule = "attributeNot" -> attributeNot(p, args[1])
    [] rule = "functionRecord" -> functionRecord(p)
    [] rule = "comparison" -> comparison(p, args[1])
    [] rule = "statement" -> statement(p)
    [] rule = "notStatement" -> notStatement(p)
    [] rule = "isExpression" -> isExpression(p)
    [] rule = "ifExpression" -> ifExpression(p)
    [] rule = "ifBranch" -> ifBranch(p)
    [] rule = "elseIfBranch" -> elseIfBranch(p)
    [] rule = "elseBranch" -> elseBranch(p)
    [] rule = "scopeDeclaration" -> scopeDeclaration(p)
    [] rule = "matchSection" -> matchSection(p)
    [] rule = "actionSection" -> actionSection(p)
    [] rule = "actionStatement" -> actionStatement(p, args[1])
    [] rule = "actionOperation" -> actionOperation(p, args[1])
    [] rule = "attributeOperation" -> attributeOperation(p, args[1])
    [] rule = "recordOperation" -> recordOperation(p)
    [] rule = "actionAttributeExpression" -> actionAttributeExpression(p, args[1], args[2])
    [] rule = "actionEqualityRecord" -> actionEqualityRecord(p, args[1])
    [] rule = "section" -> section(p)

-----------------------------------------------------------------------------
(* The public API: parseBlock.                                               *)

\* the block sources the callers pass
Sources ==
  { "match [#a b: [#c] [#d]]",
    "match x = [#a] not(x.b)",
    "match [#a",
    "match { [#a]",
    "match x = [#a] bind [#b c: x]",
    "match y = [#a] commit y <- [#b]",
    "match [#a] commit x = [#b]",
    "match [#a] not([#b",
    "match x = if [#a] then 1 else if not([#b]) then 2 else 3",
    "match not(not([#a]))",
    "match (a b) = 3",
    "match [#a not(b",
    "match x = [#a] commit x.b += none",
    "match x = [#a] x.age > 3 bind x.b := 1 + 2",
    "match [#a] commit x = [#b] x <- [#c]",
    "match x = [#a] commit x.b <- [#c]" }

\* the block sources of the callers that write action sections
ActionSources ==
  { "match x = [#a] bind [#b c: [#d]]",
    "match x = [#a] commit [#b c: [#d]]",
    "match x = [#a] commit x <- [#b c: [#d]]",
    "match x = [#a] bind x <- [#b c: [#d]]",
    "match x = [#a] commit x.b := [#c d: [#e]]",
    "match x = [#a] bind x.b += [#c d: [#e]]",
    "match x = [#a] commit y = [#b c: [#d]]",
    "match x = [#a] commit x.b <- [#c d: [#e]]",
    "match x = [#a] bind x.b += none",
    "match x = [#a] bind x.b += #t",
    "match x = [#a] bind x.b += @n",
    "match x = [#a] bind x.b += [#c]",
    "match x = [#a] bind x.b += 1 + 2",
    "match x = [#a] bind x.b -= none",
    "match x = [#a] bind x.b -= #t",
    "match x = [#a] bind x.b -= @n",
    "match x = [#a] bind x.b -= [#c]",
    "match x = [#a] bind x.b -= 1 + 2",
    "match x = [#a] commit x.b += none",
    "match x = [#a] commit x.b += #t",
    "match x = [#a] commit x.b += @n",
    "match x = [#a] commit x.b += [#c]",
    "match x = [#a] commit x.b += 1 + 2",
    "match x = [#a] commit x.b -= none",
    "match x = [#a] commit x.b -= #t",
    "match x = [#a] commit x.b -= @n",
    "match x = [#a] commit x.b -= [#c]",
    "match x = [#a] commit x.b -= 1 + 2",
    "match x = [#a] commit x.b.c := 3",
    "match x = [#a] bind x.b.c.d += [#e]",
    "match x = [#a] commit x.b.c <- [#d]",
    "match x = [#a not(b)] bind [#c]",
    "match x = [#a not(b > 1)] bind [#c]",
    "match x = [#a] bind [#c not(d > 1)]",
    "match x = [#a] commit [#c not(d > 1) not(e > 2)]",
    "match x = [#a] commit x <- [#c not(d > 1)]",
    "match x = [#a] commit y = [#c not(d > 1)]",
    "match x = f[b: 1 not(c > 1)] bind [#d]" }

\* the block sources of the callers that write match statements: chained
\* comparisons, if expressions and infix expressions
MatchSources ==
  { "match x = y = if [#a] then 1 else 2",
    "match x = if [#a] then 1 else 2",
    "match a = (x y) = if [#a] then (1 2) else (3 4)",
    "match (x y) = if [#a] then (1 2) else (3 4)",
    "match a = b = c",
    "match a < b < c",
    "match a < b = c > d",
    "match a = b != c",
    "match [#a b] 1 < b <= 3",
    "match x = [#a] = y",
    "match [#a b | c d]",
    "match [#a | b: 1 c > 2]",
    "match [b: [#c] [#d] | e: [#f] [#g]]",
    "match [#a b: [c | d] | e]",
    "match [a | b | c]",
    "match [#a b > 1 not(c) | @d]",
    "match [a: [#b]]",
    "match [a: [#b] [#c] [#d]]",
    "match [a: [b: [#c] [#d]] [#e]]",
    "match [#a] bind [b: [#c] [#d] [#e] 2: [#f]]",
    "match p = [#a] x = p.b + p.b",
    "match p = [#a] p.b.c = p.b.c",
    "match p = [#a]\n  p.b\n  p.b",
    "match x = 1 + 2 + 3 * 4 * 5",
    "match x = 1 + 2\n  y = 1 + 2",
    "match x = is(a > b) y = is(a > b)",
    "match x = f[a: 1] y = f[a: 1]",
    "match x = \"a{{y}}\" z = \"a{{y}}\"",
    "match [#a b > 1 b > 1]",
    "match [#a not(b) not(b)]",
    "match [#a]\n[#a]",
    "match x = if p = [#a] p.b > 1 then p.b + 1 else if [#c] then 2 else 3",
    "match (x y) = if [#a] then (1 2) if [#b] then (3 4)",
    "match [#z] x = if y = 1 z = 2 then y + z",
    "match q = 1 x = if [#a b: [#c]] then q * 2 else q",
    "match x = a * b + c * d - e / f",
    "match x = 1 - 2 - 3",
    "match x = (1 + 2) * 3",
    "match x = a / (b - c) / d",
    "match x = 1 + 2 * 3 - 4",
    "match x = 8 / 4 / 2 * 3" }

\* the literals of the code blocks of the documents
CodeBlocks == {"match [#a]" \o NL, "match [#a" \o NL, "match { [#a]" \o NL}

\* what the lexer gives for each source the callers use, worked out once
Lexed ==
  [block \in Sources \cup ActionSources \cup MatchSources \cup CodeBlocks |-> Tokenize(block)]

\* EveBlockLexer.tokenize(block)
EveBlockLexer(block) == IF block \in DOMAIN Lexed THEN Lexed[block] ELSE Tokenize(block)

RECURSIVE TokenIds(_, _, _)
\* token.id = `${blockId}|${tokenIx++}` for the tokens from the k-th on
TokenIds(tokens, blockId, k) ==
  IF k > Len(tokens) THEN tokens
  ELSE TokenIds([tokens EXCEPT ![k].id = blockId \o "|" \o ToString(k - 1)], blockId, k + 1)

RECURSIVE TokenSpansUnshifted(_, _, _, _)
\* the spans of the tokens as offsets into the block's own source
TokenSpansUnshifted(tokens, offset, spans, k) ==
  IF k > Len(tokens) THEN spans
  ELSE LET token == tokens[k]
       IN TokenSpansUnshifted(tokens, offset,
                              Append(spans, [start |-> token.startOffset,
                                             end |-> token.startOffset + Len(token.image),
                                             type |-> token.label, id |-> token.id]),
                              k + 1)

RECURSIVE TokenSpans(_, _, _, _)
\* spans.push(offset + startOffset, offset + startOffset + image.length, label, id)
TokenSpans(tokens, offset, spans, k) ==
  IF k > Len(tokens) THEN spans
  ELSE LET token == tokens[k]
       IN TokenSpans(tokens, offset,
                     Append(spans, [start |-> offset + token.startOffset,
                                    end |-> offset + token.startOffset + Len(token.image),
                                    type |-> token.label, id |-> token.id]),
                     k + 1)

\* eveParser.input = tokens: the setter resets the parser, emptying errors
SetInput(ep, tokens) ==
  [ep EXCEPT !.input = tokens, !.pos = 1, !.errors = <<>>, !.st = "ok",
             !.why = "", !.ret = Undef]

\* eveParser.codeBlock(1, [blockId]): the first rule invoked catches a
\* recognition exception and returns undefined; when it ends normally with
\* input left over a NotAllInputParsedException is saved
InvokeCodeBlock(ep, blockId) ==
  Bind([p1 \in {codeBlock(ep, blockId)} |->
  IF p1.st = "ok" /\ p1.pos <= Len(p1.input)
    THEN [p1 EXCEPT !.errors = Append(@, [name |-> "NotAllInputParsedException",
                                          token |-> ErrToken(p1)])]
  ELSE IF p1.st = "syntax" THEN [p1 EXCEPT !.ret = Undef]
  ELSE p1])

\* parseBlock(block, blockId, offset, spans): the parser after the call, the
\* spans array after the call and what the call returned (threw: an error
\* that is not a recognition exception left parseBlock)
parseBlock(ep, block, blockId, offset, spans) ==
  Bind([lex \in {EveBlockLexer(block)} |->
  Bind([tokens \in {TokenIds(lex.tokens, blockId, 1)} |->
  Bind([p1 \in {InvokeCodeBlock(SetInput(ep, tokens), blockId)} |->
  LET threw == p1.st = "fatal" IN
  [ep |-> p1,
   spans |-> TokenSpans(tokens, offset, spans, 1),
   threw |-> threw,
   results |-> IF threw THEN Undef ELSE p1.ret,
   lex |-> [lex EXCEPT !.tokens = tokens],
   errors |-> IF threw THEN <<>> ELSE p1.errors]])])])

\* let eveParser = new Parser([])
NewParser ==
  [input |-> <<>>, pos |-> 1, errors |-> <<>>, block |-> 0, blockStack |-> <<>>,
   blocks |-> <<>>, lookups |-> <<>>, nodes |-> <<>>, activeScopes |-> Undef,
   st |-> "ok", why |-> "", ret |-> Undef]

-----------------------------------------------------------------------------
(* Callers of parseBlock: a sequence of calls on the module's parser.        *)

\* most public calls made in one behaviour
MaxCalls == 2

\* the block ids the callers pass
BlockIds == {"blk", "b2"}

\* no call made yet
NoCall ==
  [op |-> "none", block |-> "", blockId |-> "", threw |-> FALSE, results |-> Undef,
   errors |-> <<>>, lex |-> [tokens |-> <<>>, errors |-> <<>>], spans |-> <<>>,
   before |-> [nodes |-> 0, blocks |-> 0]]

\* objects of earlier calls that nothing can reach any more (the results of
\* the last call are given up by the caller and nothing is left on the block
\* stack) are dropped from the arenas
Collect(ep) ==
  IF ep.blockStack # <<>> THEN ep
  ELSE [ep EXCEPT !.nodes = <<>>, !.blocks = <<>>, !.lookups = <<>>]

\* how many nodes and blocks there are: the objects made later lie above
HeapSize(ep) == [nodes |-> Len(ep.nodes), blocks |-> Len(ep.blocks)]

\* a caller calls parseBlock(block, blockId) with the default offset and spans
CallParseBlock(block, blockId) ==
  /\ ncalls < MaxCalls
  /\ \E ep \in {Collect(eveParser)} :
       \E r \in {parseBlock(ep, block, blockId, 0, <<>>)} :
         /\ eveParser' = r.ep
         /\ call' = [op |-> "parseBlock", block |-> block, blockId |-> blockId,
                     threw |-> r.threw, results |-> r.results, errors |-> r.errors,
                     lex |-> r.lex, spans |-> r.spans, before |-> HeapSize(ep)]
  /\ ncalls' = ncalls + 1
  /\ UNCHANGED <<md, docs, pb>>

-----------------------------------------------------------------------------
(* parseMarkdown.  The commonmark parser is outside this file: the model     *)
(* takes the tree it built from the walker, one event per step.  A node is   *)
(* [n, type, literal, startLine, endLine]: n its identity, startLine = 0     *)
(* for a node without sourcepos (the inline nodes).                          *)

\* the locals of parseMarkdown at its while loop, before the first event;
\* open, count and srcLine are the walker's: the containers entered and not
\* left, the nodes presented so far and the source line reached
NewWalk ==
  [st |-> "walking", tokenId |-> 0, text |-> "", extraInfo |-> <<>>, pos |-> 0,
   lastLine |-> 1, spans |-> <<>>, context |-> <<>>, blocks |-> <<>>,
   open |-> <<>>, count |-> 0, srcLine |-> 0]

RECURSIVE SyntheticNewlines(_, _)
\* while(node.sourcepos && node.sourcepos[0][0] > lastLine)
SyntheticNewlines(m, node) ==
  IF node.startLine # 0 /\ node.startLine > m.lastLine
    THEN SyntheticNewlines([m EXCEPT !.lastLine = @ + 1, !.pos = @ + 1, !.text = @ \o NL], node)
    ELSE m

\* context.pop() of the entering branch: the start of the entry popped
PopStart(m) == m.context[Len(m.context)].start

PopContext(m) == [m EXCEPT !.context = SubSeq(@, 1, Len(@) - 1)]

\* spans.push(start, end, type, id)
PushSpan(m, start, end, type, id) ==
  [m EXCEPT !.spans = Append(@, [start |-> start, end |-> end, type |-> type, id |-> id])]

\* `${docId}|${tokenId++}`
SpanId(m, docId) == docId \o "|" \o ToString(m.tokenId)

\* the loop body for an entering event
WalkEntering(m, docId, node) ==
  Bind([m1 \in {SyntheticNewlines(m, node)} |->
  Bind([m2 \in {IF node.type # "text"
                  THEN [m1 EXCEPT !.context = Append(@, [node |-> node.n, start |-> m1.pos,
                                                          sourcepos |-> node.startLine])]
                  ELSE m1} |->
  Bind([m3 \in {IF node.type \in {"text", "code_block", "code"}
                  THEN [m2 EXCEPT !.text = @ \o node.literal, !.pos = @ + Len(node.literal)]
                  ELSE m2} |->
  Bind([m4 \in {IF node.type = "softbreak"
                  THEN PopContext([m3 EXCEPT !.text = @ \o NL, !.pos = @ + 1, !.lastLine = @ + 1])
                  ELSE m3} |->
  Bind([m5 \in {IF node.type = "code_block"
                  THEN LET spanId == SpanId(m4, docId) \o "|block"
                           start == PopStart(m4) IN
                       Bind([a1 \in {PushSpan(PopContext(m4), start, m4.pos, node.type, spanId)} |->
                       [a1 EXCEPT !.tokenId = @ + 1,
                                  !.blocks = Append(@, [literal |-> node.literal, id |-> spanId,
                                                        startOffset |-> start,
                                                        sourcepos |-> node.startLine]),
                                  !.lastLine = node.endLine + 1]])
                  ELSE m4} |->
  IF node.type = "code"
    THEN LET start == PopStart(m5) IN
         Bind([a1 \in {PushSpan(PopContext(m5), start, m5.pos, node.type, SpanId(m5, docId))} |->
         [a1 EXCEPT !.tokenId = @ + 1]])
    ELSE m5])])])])])

\* the throw of the leaving branch
MismatchError == "threw: Common mark is exiting a node that doesn't agree with the context stack"

\* info.node with nothing left on the context stack
NoInfoError == "threw: TypeError: cannot read property node of undefined"

\* the loop body for a leaving event
WalkLeaving(m, docId, node) ==
  IF m.context = <<>>
    THEN [m EXCEPT !.st = NoInfoError]
  ELSE
    LET info == m.context[Len(m.context)] IN
    Bind([m1 \in {PopContext(m)} |->
    IF node.n # info.node
      THEN [m1 EXCEPT !.st = MismatchError]
    ELSE IF node.type \in {"emph", "strong", "link"}
      THEN Bind([a1 \in {PushSpan(m1, info.start, m1.pos, node.type, SpanId(m1, docId))} |->
           [a1 EXCEPT !.tokenId = @ + 1,
                      !.extraInfo = IF node.type = "link" THEN Append(@, SpanId(m1, docId)) ELSE @]])
    ELSE IF node.type \in {"heading", "item"}
      THEN Bind([a1 \in {PushSpan(m1, info.start, info.start, node.type, SpanId(m1, docId))} |->
           [a1 EXCEPT !.tokenId = @ + 1, !.extraInfo = Append(@, SpanId(m1, docId))]])
    ELSE m1])

-----------------------------------------------------------------------------
(* The trees commonmark builds, as the walker presents them.                 *)

\* most nodes the walkers present in one behaviour, document nodes included
MaxNodes == 4

BlockTypes == {"paragraph", "heading", "code_block", "thematic_break"}
InlineTypes == {"text", "softbreak", "linebreak", "code", "emph"}
ContainerTypes == {"document", "paragraph", "heading", "emph"}

\* the node types a node of the given type can hold
Children(type) ==
  CASE type = "document" -> BlockTypes
    [] type = "paragraph" -> InlineTypes
    [] type = "heading" -> {"text", "code", "emph"}
    [] type = "emph" -> {"text", "code"}
    [] OTHER -> {}

\* the literals of the leaf nodes
Literals(type) ==
  CASE type = "text" -> {"ab"}
    [] type = "code" -> {"c"}
    [] type = "code_block" -> CodeBlocks
    [] OTHER -> {""}

\* blank lines plus one between two blocks of the source
Gaps == {1, 2}

RECURSIVE CountLines(_)
\* the number of line ends in a literal
CountLines(str) ==
  IF str = "" THEN 0
  ELSE (IF Ch(str, 1) = NL THEN 1 ELSE 0) + CountLines(From(str, 2))

\* the node the walker presents next on entering: a block starts gap lines
\* below the source line reached; a fenced code block ends on its closing fence
NewNode(m, type, literal, gap) ==
  LET isBlock == type \in BlockTypes
      startLine == IF type = "document" THEN 1 ELSE IF isBlock THEN m.srcLine + gap ELSE 0
  IN [n |-> m.count + 1, type |-> type, literal |-> literal, startLine |-> startLine,
      endLine |-> IF type = "code_block" THEN startLine + CountLines(literal) + 1
                  ELSE startLine]

\* the walker's own position after presenting the entering event of node
WalkerEnter(m, node) ==
  LET top == Len(m.open) IN
  Bind([m1 \in {IF top > 0 THEN [m EXCEPT !.open[top].last = node.type] ELSE m} |->
  Bind([m2 \in {[m1 EXCEPT !.count = @ + 1,
                           !.srcLine = IF node.type \in {"softbreak", "linebreak"} THEN @ + 1
                                       ELSE IF node.type \in BlockTypes THEN node.endLine
                                       ELSE @]} |->
  IF node.type \in ContainerTypes
    THEN [m2 EXCEPT !.open = Append(@, [node |-> node, last |-> ""])]
    ELSE m2])])

\* can the node on top of the walker's stack take a child of this type next
CanEnter(m, type) ==
  IF m.open = <<>> THEN type = "document"
  ELSE LET top == m.open[Len(m.open)]
       IN /\ type \in Children(top.node.type)
          /\ m.count < MaxNodes
          /\ type \in {"softbreak", "linebreak"} => top.last \notin {"", "softbreak", "linebreak"}

\* can the node on top of the walker's stack end here
CanLeave(m) ==
  /\ m.open # <<>>
  /\ LET top == m.open[Len(m.open)]
     IN /\ top.node.type \in {"paragraph", "emph"} => top.last # ""
        /\ top.last \notin {"softbreak", "linebreak"}

-----------------------------------------------------------------------------
(* parseDoc.                                                                 *)

\* no parseDoc call made yet; docIx is the module's counter
NoDoc ==
  [st |-> "idle", docIx |-> 0, docId |-> "", text |-> "", spans |-> <<>>,
   blocks |-> <<>>, parsedBlocks |-> <<>>, extraInfo |-> <<>>, errors |-> <<>>,
   lexes |-> <<>>, raised |-> <<>>, before |-> [nodes |-> 0, blocks |-> 0]]

\* no walk under way
NoWalk == [NewWalk EXCEPT !.st = "idle"]

RECURSIVE ParseDocBlocks(_, _, _)
\* for(let block of blocks): acc holds the parser, spans and parsedBlocks so
\* far, what each parseBlock call returned as lex and errors, and whether a
\* call threw
ParseDocBlocks(acc, blocks, k) ==
  IF k > Len(blocks) \/ acc.threw THEN acc
  ELSE LET block == blocks[k] IN
       Bind([r \in {parseBlock(acc.ep, block.literal, block.id, block.startOffset, acc.spans)} |->
       ParseDocBlocks([ep |-> r.ep, spans |-> r.spans, threw |-> r.threw,
                       parsedBlocks |-> IF r.threw THEN acc.parsedBlocks
                                        ELSE Append(acc.parsedBlocks, r.results),
                       lexes |-> Append(acc.lexes, r.lex),
                       raised |-> acc.raised \o r.errors],
                      blocks, k + 1)])

\* parseDoc(doc) is called: docId = `doc|${docIx++}`, parseMarkdown starts
CallParseDoc ==
  /\ docs.st # "walking"
  /\ md.count < MaxNodes
  /\ docs' = [NoDoc EXCEPT !.st = "walking", !.docIx = docs.docIx + 1,
                           !.docId = "doc|" \o ToString(docs.docIx),
                           !.before = HeapSize(Collect(eveParser))]
  /\ md' = [NewWalk EXCEPT !.count = md.count]
  /\ eveParser' = Collect(eveParser)
  /\ UNCHANGED <<call, ncalls, pb>>

\* walker.next() gives the entering event of a node
WalkEnter(type, literal, gap) ==
  /\ docs.st = "walking"
  /\ md.st = "walking"
  /\ CanEnter(md, type)
  /\ LET node == NewNode(md, type, literal, gap)
     IN md' = WalkEntering(WalkerEnter(md, node), docs.docId, node)
  /\ UNCHANGED <<eveParser, call, ncalls, docs, pb>>

\* walker.next() gives the leaving event of the innermost open container;
\* after the document's the walk is over and parseMarkdown returns, unless
\* the loop body threw
WalkLeave ==
  /\ docs.st = "walking"
  /\ md.st = "walking"
  /\ CanLeave(md)
  /\ LET top == md.open[Len(md.open)]
         m1 == WalkLeaving([md EXCEPT !.open = SubSeq(@, 1, Len(@) - 1)], docs.docId, top.node)
         threw == m1.st # "walking"
     IN /\ md' = IF ~threw /\ m1.open = <<>> THEN [m1 EXCEPT !.st = "done"] ELSE m1
        /\ docs' = IF threw THEN [docs EXCEPT !.st = "threw"] ELSE docs
  /\ UNCHANGED <<eveParser, call, ncalls, pb>>

\* parseDoc after parseMarkdown has returned: the loop over the blocks and
\* the return
ParseBlocks ==
  /\ docs.st = "walking"
  /\ md.st = "done"
  /\ \E r \in {ParseDocBlocks([ep |-> eveParser, spans |-> md.spans, threw |-> FALSE,
                                parsedBlocks |-> <<>>, lexes |-> <<>>, raised |-> <<>>],
                               md.blocks, 1)} :
       /\ eveParser' = r.ep
       /\ docs' = IF r.threw THEN [docs EXCEPT !.st = "threw"]
                  ELSE [docs EXCEPT !.st = "returned", !.text = md.text, !.spans = r.spans,
                                    !.blocks = md.blocks, !.parsedBlocks = r.parsedBlocks,
                                    !.extraInfo = md.extraInfo, !.errors = r.ep.errors,
                                    !.lexes = r.lexes, !.raised = r.raised]
  /\ md' = [NoWalk EXCEPT !.count = md.count]
  /\ UNCHANGED <<call, ncalls, pb>>

-----------------------------------------------------------------------------
(* Users of the ParseBlock class: a root block and the sub-blocks made from  *)
(* it, driven through toVariable and subBlock.                               *)

\* most blocks of one family
MaxBlocks == 2

\* the names asked for
Names == {"x", "y", "constructor"}

\* new ParseBlock("block"), no call made on it yet.  first maps a name to the
\* node the first toVariable call for it created (Undef if it created none)
NewFamily ==
  LET h == NewParseBlock([blocks |-> <<>>, lookups |-> <<>>, nodes |-> <<>>,
                          st |-> "ok", why |-> "", ret |-> Undef], "block", 0)
  IN [h |-> h, first |-> <<>>, last |-> [op |-> "new", b |-> 1, name |-> "", ret |-> h.ret]]

\* block.toVariable(name, generated) on the b-th block of the family
CallToVariable(b, nm, generated) ==
  /\ b \in 1..Len(pb.h.blocks)
  /\ LET h1 == PBtoVariable(pb.h, b, nm, generated)
         created == IF Len(h1.nodes) > Len(pb.h.nodes) THEN NodeRef(Len(h1.nodes)) ELSE Undef
     IN pb' = [h |-> h1,
               first |-> IF nm \in DOMAIN pb.first THEN pb.first ELSE (nm :> created) @@ pb.first,
               last |-> [op |-> "toVariable", b |-> b, name |-> nm, ret |-> h1.ret]]
  /\ UNCHANGED <<eveParser, call, ncalls, md, docs>>

\* block.subBlock() on the b-th block of the family
CallSubBlock(b) ==
  /\ b \in 1..Len(pb.h.blocks)
  /\ Len(pb.h.blocks) < MaxBlocks
  /\ LET h1 == PBsubBlock(pb.h, b)
     IN pb' = [pb EXCEPT !.h = h1, !.last = [op |-> "subBlock", b |-> b, name |-> "", ret |-> h1.ret]]
  /\ UNCHANGED <<eveParser, call, ncalls, md, docs>>

-----------------------------------------------------------------------------
(* cleanString on the images of string tokens.                              *)

MaxChars == 3

\* the characters the images are written with
ImageChars == {BS, "n", "t", "r", QUOTE, "{", "}", "a"}

RECURSIVE StringsUpTo(_)
StringsUpTo(n) ==
  IF n = 0 THEN {""}
  ELSE {""} \cup {c \o s : c \in ImageChars, s \in StringsUpTo(n - 1)}

\* the images a StringChars token can have: the pattern matches all of the
\* string, and no more, before the closing quote
StringImages ==
  {s \in StringsUpTo(MaxChars) : s # "" /\ RunStringChars(s \o QUOTE, 1) = Len(s)}

\* cleanString(str.image) of the stringInterpolation rule, on its own; the
\* function has no state, so one application per behaviour shows all it does
CallCleanString(str) ==
  /\ call.op = "none"
  /\ call' = [op |-> "cleanString", str |-> str, ret |-> cleanString(str)]
  /\ UNCHANGED <<eveParser, ncalls, md, docs, pb>>

-----------------------------------------------------------------------------
(* The specifications.                                                       *)

Init ==
  /\ eveParser = NewParser
  /\ call = NoCall
  /\ ncalls = 0
  /\ md = NoWalk
  /\ docs = NoDoc
  /\ pb = NewFamily

\* callers of parseBlock
Next == \E block \in Sources, blockId \in BlockIds : CallParseBlock(block, blockId)

Spec == Init /\ [][Next]_vars

\* callers of parseDoc
NextDoc ==
  \/ CallParseDoc
  \/ \E type \in BlockTypes \cup InlineTypes \cup {"document"} :
       \E literal \in Literals(type) :
         \E gap \in (IF type \in BlockTypes THEN Gaps ELSE {1}) : WalkEnter(type, literal, gap)
  \/ WalkLeave
  \/ ParseBlocks

SpecDoc == Init /\ [][NextDoc]_vars

\* users of ParseBlock
NextPB ==
  \/ \E b \in 1..MaxBlocks, nm \in Names, generated \in BOOLEAN : CallToVariable(b, nm, generated)
  \/ \E b \in 1..MaxBlocks : CallSubBlock(b)

SpecPB == Init /\ [][NextPB]_vars

\* callers of parseBlock that write action sections
NextAction == \E block \in ActionSources, blockId \in BlockIds : CallParseBlock(block, blockId)

SpecAction == Init /\ [][NextAction]_vars

\* callers of parseBlock that write match statements
NextMatch == \E block \in MatchSources, blockId \in BlockIds : CallParseBlock(block, blockId)

SpecMatch == Init /\ [][NextMatch]_vars

\* callers of cleanString
NextClean == \E str \in StringImages : CallCleanString(str)

SpecClean == Init /\ [][NextClean]_vars

-----------------------------------------------------------------------------
(* Properties.                                                               *)

\* the indices of s
Indices(seq) == 1..Len(seq)

\* no element occurs twice in the sequence
NoDuplicates(seq) == \A i, j \in Indices(seq) : seq[i] = seq[j] => i = j

\* how often x occurs in the sequence
Occurrences(seq, x) == Cardinality({i \in Indices(seq) : seq[i] = x})

\* str.substring(start, end)
Substring(str, start, end) == SubSeq(str, start + 1, end)

\* the ids of the spans, the tokens' spans among them
SpanIds(spans) == [i \in Indices(spans) |-> spans[i].id]

\* the nodes made since the heap had the size before, as indices
NodesSince(before) == {i \in Indices(eveParser.nodes) : i > before.nodes}

\* the blocks made since
BlocksSince(before) == {b \in Indices(eveParser.blocks) : b > before.blocks}

\* a set of indices in increasing order
RECURSIVE InOrder(_)
InOrder(S) ==
  IF S = {} THEN <<>>
  ELSE LET least == CHOOSE i \in S : \A j \in S : i <= j
       IN <<least>> \o InOrder(S \ {least})

\* the ids of the IR nodes made since
NodeIds(before) ==
  LET ix == InOrder(NodesSince(before)) IN [i \in Indices(ix) |-> eveParser.nodes[ix[i]].id]

\* the ids of the sub-blocks made since: the blocks made by subBlock, not the
\* roots, whose id is the id of the code block
SubBlockIds(before, rootIds) ==
  LET ix == InOrder({b \in BlocksSince(before) : eveParser.blocks[b].id \notin rootIds})
  IN [i \in Indices(ix) |-> eveParser.blocks[ix[i]].id]

\* C1: in the result of a parseDoc call all ids are pairwise distinct: no
\* markdown span id, token id, IR node id or sub-block id equals another one
C1_IdsUnique ==
  docs.st = "returned" =>
    NoDuplicates(SpanIds(docs.spans) \o NodeIds(docs.before)
                 \o SubBlockIds(docs.before, {docs.blocks[k].id : k \in Indices(docs.blocks)}))

\* C2: every rule that pushes a block pops it on every exit path, so the
\* block stack is empty after every top-level codeBlock invocation
C2_BlockStackBalanced == eveParser.blockStack = <<>>

\* a source that lexes and parses without any error on a new parser
ValidSource(block) ==
  LET r == parseBlock(NewParser, block, "id", 0, <<>>)
  IN ~r.threw /\ r.errors = <<>> /\ r.lex.errors = <<>> /\ IsBlock(r.results)

\* the variable names a new parser's root block holds after parsing the source
OwnVariables(block) ==
  LET r == parseBlock(NewParser, block, "id", 0, <<>>)
  IN DOMAIN r.ep.lookups[r.ep.blocks[r.results.b].variableLookup]

\* C3: whatever the earlier parseBlock calls did, a call that parses a valid
\* source returns a root block of its own: its id is the blockId passed and
\* its variableLookup holds the variables of its own source only
C3_FreshRootBlock ==
  (call.op = "parseBlock" /\ ValidSource(call.block)) =>
    /\ ~call.threw
    /\ IsBlock(call.results)
    /\ LET blk == eveParser.blocks[call.results.b]
       IN /\ blk.id = call.blockId
          /\ call.results.b > call.before.blocks
          /\ DOMAIN eveParser.lookups[blk.variableLookup] = OwnVariables(call.block)

\* C4: in a family of blocks a name resolves to one variable node: every
\* toVariable(name), on whichever block, returns the node the first
\* toVariable(name) of the family created
C4_OneNodePerName ==
  pb.last.op = "toVariable" =>
    /\ IsNode(pb.last.ret)
    /\ pb.h.nodes[pb.last.ret.i].type = "variable"
    /\ pb.last.ret = pb.first[pb.last.name]

\* C5: the errors parseDoc returns hold every error raised while any of the
\* document's blocks was parsed
C5_ErrorsAccumulate ==
  docs.st = "returned" =>
    \A i \in Indices(docs.raised) :
      Occurrences(docs.errors, docs.raised[i]) >= Occurrences(docs.raised, docs.raised[i])

\* C6: when lexing the source fails at some position parseBlock aborts or
\* returns a non-empty errors list
C6_LexFailureFatal ==
  (call.op = "parseBlock" /\ call.lex.errors # <<>>) => (call.threw \/ call.errors # <<>>)

\* C7: in a walk the entry popped at a leaving event is the entry pushed for
\* the node left, so the mismatch error is never thrown, and the context
\* stack is empty when the walk ends
C7_ContextMatches ==
  /\ md.st \notin {MismatchError, NoInfoError}
  /\ md.st = "done" => md.context = <<>>

\* the spans pushed under an id
SpansOf(id) == {i \in Indices(docs.spans) : docs.spans[i].id = id}

\* C8: for every code block of a returned document, the span of every token
\* lexed from it cuts the token's image out of the flattened text, and the
\* code_block span cuts out the block's literal, from the block's startOffset
C8_TokenSpans ==
  docs.st = "returned" =>
    \A k \in Indices(docs.lexes) :
      LET block == docs.blocks[k]
          tokens == docs.lexes[k].tokens
      IN /\ \A t \in Indices(tokens) :
              /\ SpansOf(tokens[t].id) # {}
              /\ \A i \in SpansOf(tokens[t].id) :
                   /\ docs.spans[i].type = tokens[t].label
                   /\ Substring(docs.text, docs.spans[i].start, docs.spans[i].end) = tokens[t].image
         /\ SpansOf(block.id) # {}
         /\ \A i \in SpansOf(block.id) :
              /\ docs.spans[i].type = "code_block"
              /\ docs.spans[i].start = block.startOffset
              /\ Substring(docs.text, docs.spans[i].start, docs.spans[i].end) = block.literal

\* a document has been returned with a code block that starts after some
\* text and gave tokens
C8_Witness ==
  /\ docs.st = "returned"
  /\ \E k \in Indices(docs.lexes) :
       /\ docs.blocks[k].startOffset > 0
       /\ Len(docs.lexes[k].tokens) > 1
       /\ Len(docs.text) > docs.blocks[k].startOffset + Len(docs.blocks[k].literal)

\* is x a token or an IR node
IsProvenance(x) == x.k \in {"tok", "node"}

\* C9: every IR node made while a block is parsed, the variables apart, and
\* every not block, has a non-empty from list of tokens and IR nodes
C9_Provenance ==
  /\ \A i \in NodesSince(call.before) :
       LET node == eveParser.nodes[i]
       IN node.type # "variable" =>
            /\ "from" \in DOMAIN node
            /\ node.from # <<>>
            /\ \A j \in Indices(node.from) : IsProvenance(node.from[j])
  /\ \A b \in BlocksSince(call.before) :
       LET blk == eveParser.blocks[b]
       IN (blk.type = "not" /\ blk.from # Undef) =>
            /\ blk.from.items # <<>>
            /\ \A j \in Indices(blk.from.items) : IsProvenance(blk.from.items[j])

\* the record nodes of the last call that have an identity variable
Records ==
  {i \in NodesSince(call.before) :
     /\ eveParser.nodes[i].type = "record"
     /\ "variable" \in DOMAIN eveParser.nodes[i]
     /\ IsNode(eveParser.nodes[i].variable)}

\* variable.nonProjecting === true
NonProjecting(v) ==
  /\ "nonProjecting" \in DOMAIN eveParser.nodes[v.i]
  /\ eveParser.nodes[v.i].nonProjecting = TRUE

\* is the variable written in the source
UserVariable(v) == eveParser.nodes[v.i].generated = FALSE

\* has the record a surface binding: it is merged into with <-, its identity
\* is a variable of the source, or an equality of the block ties its identity
\* to a variable of the source
Bound(i) ==
  LET rec == eveParser.nodes[i]
  IN \/ rec.action = StrV("<-")
     \/ UserVariable(rec.variable)
     \/ \E b \in Indices(eveParser.blocks) :
          \E e \in Indices(eveParser.blocks[b].equalities) :
            LET pair == eveParser.blocks[b].equalities[e]
            IN \/ (pair[2] = rec.variable /\ IsNode(pair[1])
                   /\ eveParser.nodes[pair[1].i].type = "variable" /\ UserVariable(pair[1]))
               \/ (pair[1] = rec.variable /\ IsNode(pair[2])
                   /\ eveParser.nodes[pair[2].i].type = "variable" /\ UserVariable(pair[2]))

\* C10 as stated: a record's identity variable is nonProjecting if and only
\* if the record is anonymous, that is has no surface binding
C10_NonProjectingIffAnonymous ==
  (call.op = "parseBlock" /\ ~call.threw /\ call.errors = <<>>) =>
    \A i \in Records : NonProjecting(eveParser.nodes[i].variable) <=> ~Bound(i)

\* is the variable an identity the record rule generated
RecordIdentity(v) ==
  LET node == eveParser.nodes[v.i]
  IN node.generated = TRUE /\ Len(node.name) > 7 /\ SubSeq(node.name, 1, 7) = "record|"

\* is the variable the target of an `x <- [...]` merge
MergedInto(v) ==
  \E i \in Indices(eveParser.nodes) :
    LET rec == eveParser.nodes[i]
    IN /\ rec.type = "record"
       /\ rec.action = StrV("<-")
       /\ "needsEntity" \in DOMAIN rec
       /\ "variable" \in DOMAIN rec
       /\ rec.variable = v

\* C10 as the code has it: a record's identity variable is nonProjecting if
\* and only if it is an identity the record rule generated (every record
\* parsed without noVar, the right side of a match `x = [...]` among them) or
\* the variable of the source that an `x <- [...]` merges into
C10_NonProjectingIdentity ==
  \A i \in Records :
    LET v == eveParser.nodes[i].variable
    IN NonProjecting(v) <=> (RecordIdentity(v) \/ MergedInto(v))

\* a block has been parsed in which a record bound by `x = [...]` in a commit
\* section shares its unmarked variable's name space with a merge, and one
\* in which a match record bound to y is merged into
C10_Witness ==
  /\ call.op = "parseBlock"
  /\ ~call.threw /\ call.errors = <<>>
  /\ \E i, j \in Records :
       /\ NonProjecting(eveParser.nodes[i].variable)
       /\ Bound(i)
       /\ UserVariable(eveParser.nodes[i].variable)
       /\ RecordIdentity(eveParser.nodes[j].variable)
       /\ Bound(j)

\* the image of the section keyword (match, bind or commit) that the k-th
\* token of the input stands under, "" before the first keyword
SectionKey(k) ==
  LET heads == {t \in 1..k : eveParser.input[t].type \in {"Match", "Action"}}
  IN IF heads = {} THEN ""
     ELSE eveParser.input[CHOOSE t \in heads : \A u \in heads : u <= t].image

\* is the value a record node written in an action section: its opening
\* bracket stands under bind or commit
ActionRecord(v) ==
  /\ IsNode(v)
  /\ eveParser.nodes[v.i].type = "record"
  /\ SectionKey(eveParser.nodes[v.i].from[1].t) \in {"bind", "commit"}

\* the list of a block that takes the records of a section
ListOf(key) == IF key = "bind" THEN "binds" ELSE IF key = "commit" THEN "commits" ELSE "scanLike"

\* C11: every record written in an action section that is appended to a
\* block is appended to binds under bind and to commits under commit, at top
\* level or nested in another record; none is appended to scanLike
C11_ActionRecordsRouted ==
  call.op = "parseBlock" =>
    \A b \in BlocksSince(call.before) :
      \A list \in {"scanLike", "binds", "commits"} :
        \A j \in Indices(eveParser.blocks[b][list]) :
          LET v == eveParser.blocks[b][list][j]
          IN ActionRecord(v) => list = ListOf(SectionKey(eveParser.nodes[v.i].from[1].t))

\* has the last call parsed its source without any error
Parsed == call.op = "parseBlock" /\ ~call.threw /\ call.errors = <<>>

\* what asValue gives for a value of the parser
ValueOf(v) ==
  IF TypeOf(eveParser, v) \in {"constant", "variable", "parenthesis"} THEN v
  ELSE Field(eveParser, v, "variable")

\* what ifOutputs gives for an expression
IfOutputsOf(e) ==
  IF TypeOf(eveParser, e) = "parenthesis"
    THEN LET items == Field(eveParser, e, "items")
         IN ListV([j \in Indices(items) |-> ValueOf(items[j])])
    ELSE ListV(<<ValueOf(e)>>)

\* the comparison nodes of the last call that were parsed as statements:
\* their expressions carry no result variable
Comparisons ==
  {c \in NodesSince(call.before) :
     /\ eveParser.nodes[c].type = "comparison"
     /\ \A x \in Indices(eveParser.nodes[c].expressions) :
          "variable" \notin DOMAIN eveParser.nodes[eveParser.nodes[c].expressions[x].i]}

\* is the pair an equality some block of the last call recorded
EqualityRecorded(a, b) ==
  \E blk \in BlocksSince(call.before) :
    \E e \in Indices(eveParser.blocks[blk].equalities) :
      eveParser.blocks[blk].equalities[e] = <<a, b>>

\* C12: in a chained comparison e0 op1 e1 ... opn en parsed as a statement the
\* i-th operator is lowered against (e(i-1), e(i)): an equality records the
\* equality of their values, a comparison operator makes an expression with
\* their values as args, an if expression on the right of an equality gets
\* outputs = ifOutputs(e(i-1))
C12_PairwiseComparison ==
  Parsed =>
    \A c \in Comparisons :
      LET from == eveParser.nodes[c].from
      IN \A i \in 1..((Len(from) - 1) \div 2) :
           LET prev == from[2 * i - 1]
               comparator == eveParser.input[from[2 * i].t]
               cur == from[2 * i + 1]
           IN IF comparator.type = "Equality"
                THEN IF TypeOf(eveParser, cur) = "ifExpression"
                       THEN Field(eveParser, cur, "outputs") = IfOutputsOf(prev)
                       ELSE EqualityRecorded(ValueOf(prev), ValueOf(cur))
                ELSE \E x \in Indices(eveParser.nodes[c].expressions) :
                       LET expr == eveParser.nodes[eveParser.nodes[c].expressions[x].i]
                       IN /\ expr.op = comparator.image
                          /\ expr.args = <<ValueOf(prev), ValueOf(cur)>>

\* the tokens += and -= of the input that follow an attribute mutator x.a
MutateOps ==
  {k \in Indices(eveParser.input) :
     /\ eveParser.input[k].type = "Mutate"
     /\ k > 3
     /\ eveParser.input[k - 1].type = "Identifier"
     /\ eveParser.input[k - 2].type = "Dot"}

\* the action nodes of the last call made for the operator at token k
ActionsAt(k) ==
  {n \in NodesSince(call.before) :
     /\ eveParser.nodes[n].type = "action"
     /\ Len(eveParser.nodes[n].from) = 3
     /\ eveParser.nodes[n].from[2] = TokRef(k)}

\* is the node appended to the list the section keyword names, in some block
\* of the last call
Routed(n, k) ==
  \E blk \in BlocksSince(call.before) :
    \E j \in Indices(eveParser.blocks[blk][ListOf(SectionKey(k))]) :
      eveParser.blocks[blk][ListOf(SectionKey(k))][j] = NodeRef(n)

\* C13: an attribute operation x.a += rhs or x.a -= rhs, rhs none, a tag, a
\* name, a record or an infix expression, raises no fatal error and gives one
\* action node, appended to binds or commits, with the operator as action,
\* the mutator's parent as entity, the name a as attribute and the value of
\* rhs as value
C13_MutateAction ==
  (call.op = "parseBlock" /\ call.errors = <<>> /\ call.before.blocks = 0) =>
    \A k \in MutateOps :
      /\ ~call.threw
      /\ \E n \in ActionsAt(k) :
           LET node == eveParser.nodes[n]
           IN /\ node.action = StrV(eveParser.input[k].image)
              /\ node.entity = ValueOf(Field(eveParser, node.from[1], "parent"))
              /\ node.attribute = StrV(eveParser.input[k - 1].image)
              /\ "value" \in DOMAIN node
              /\ node.value = ValueOf(node.from[3])
              /\ Routed(n, k)

\* the record nodes of the last call
AllRecords == {r \in NodesSince(call.before) : eveParser.nodes[r].type = "record"}

\* is the value the token of a pipe
IsPipe(v) == IsTok(v) /\ eveParser.input[v.t].type = "Pipe"

\* is the attribute written after a pipe of the record: the record's from
\* list holds the bracket, the attributes and the pipes in source order
AfterPipe(r, a) ==
  LET from == eveParser.nodes[r].from
  IN \E i, j \in Indices(from) : i < j /\ IsPipe(from[i]) /\ from[j] = a

\* the attribute nodes a record got for the attributes written in it: the
\* eve-auto-index attributes are added by the enclosing equality
Written(r) ==
  {a \in {eveParser.nodes[r].attributes[j] : j \in Indices(eveParser.nodes[r].attributes)} :
     eveParser.nodes[a.i].attribute # StrV("eve-auto-index")}

\* C14: in every record each attribute node of an attribute written before
\* the first pipe has nonProjecting = false and each one of an attribute
\* written after a pipe has nonProjecting = true, for singular attributes,
\* equalities (every node of a multi-valued one) and comparisons
C14_PipeFlag ==
  Parsed =>
    \A r \in AllRecords :
      \A a \in Written(r) :
        /\ "nonProjecting" \in DOMAIN eveParser.nodes[a.i]
        /\ eveParser.nodes[a.i].nonProjecting = AfterPipe(r, a)

\* a record has been parsed with an attribute before its pipe and the two
\* nodes of a multi-valued equality after it
C14_Witness ==
  /\ Parsed
  /\ \E r \in AllRecords :
       \E a, b, c \in Written(r) :
         /\ ~AfterPipe(r, a)
         /\ AfterPipe(r, b) /\ AfterPipe(r, c)
         /\ b # c
         /\ eveParser.nodes[b.i].attribute = eveParser.nodes[c.i].attribute

RECURSIVE CloseOf(_, _)
\* the token that closes the bracket opened depth brackets before the k-th
\* token; CloseOf(k, 0) closes the bracket at k
CloseOf(k, depth) ==
  LET type == eveParser.input[k].type
  IN IF type = "OpenBracket" THEN CloseOf(k + 1, depth + 1)
     ELSE IF type = "CloseBracket" /\ depth = 1 THEN k
     ELSE IF type = "CloseBracket" THEN CloseOf(k + 1, depth - 1)
     ELSE CloseOf(k + 1, depth)

RECURSIVE RunStarts(_)
\* the opening brackets of the run of records written from the k-th token on
RunStarts(k) ==
  IF k <= Len(eveParser.input) /\ eveParser.input[k].type = "OpenBracket"
    THEN <<k>> \o RunStarts(CloseOf(k, 0) + 1)
    ELSE <<>>

\* how many brackets are open at the k-th token
Depth(k) ==
  Cardinality({t \in 1..(k - 1) : eveParser.input[t].type = "OpenBracket"})
  - Cardinality({t \in 1..(k - 1) : eveParser.input[t].type = "CloseBracket"})

\* the equality tokens of the attribute equalities of the input that have
\* records on their right
RecordEqualities ==
  {e \in Indices(eveParser.input) :
     /\ eveParser.input[e].type = "Equality"
     /\ Depth(e) > 0
     /\ e < Len(eveParser.input)
     /\ eveParser.input[e + 1].type = "OpenBracket"}

\* the record node of the last call written from the k-th token on
RecordAt(k) ==
  CHOOSE r \in AllRecords : eveParser.nodes[r].from[1] = TokRef(k)

\* the attribute nodes of the last call made for the equality at token e
AttributesAt(e) ==
  {a \in NodesSince(call.before) :
     /\ eveParser.nodes[a].type = "attribute"
     /\ Len(eveParser.nodes[a].from) = 3
     /\ eveParser.nodes[a].from[2] = TokRef(e)}

\* the values of the eve-auto-index attributes of a record, as a sequence
AutoIndices(r) ==
  LET attrs == eveParser.nodes[r].attributes
      ix == InOrder({j \in Indices(attrs) :
                       eveParser.nodes[attrs[j].i].attribute = StrV("eve-auto-index")})
  IN [j \in Indices(ix) |-> eveParser.nodes[eveParser.nodes[attrs[ix[j]].i].value.i].value]

\* C15: an attribute equality with a run of n records on its right gives n
\* attribute nodes, one per record and valued by the record's identity
\* variable; for n >= 2 the k-th record of the run gets exactly one
\* eve-auto-index attribute, with the constant k, for n = 1 it gets none
C15_AutoIndex ==
  Parsed =>
    \A e \in RecordEqualities :
      LET starts == RunStarts(e + 1)
          n == Len(starts)
      IN /\ Cardinality(AttributesAt(e)) = n
         /\ \A k \in 1..n :
              LET r == RecordAt(starts[k])
              IN /\ Cardinality({a \in AttributesAt(e) :
                                   /\ eveParser.nodes[a].from[3] = NodeRef(r)
                                   /\ eveParser.nodes[a].value = eveParser.nodes[r].variable}) = 1
                 /\ AutoIndices(r) = IF n >= 2 THEN <<NumV(k)>> ELSE <<>>

\* an attribute equality with three records on its right has been parsed,
\* and one with a single record
C15_Witness ==
  /\ Parsed
  /\ \E e, f \in RecordEqualities :
       /\ Len(RunStarts(e + 1)) = 3
       /\ AutoIndices(RecordAt(RunStarts(e + 1)[3])) = <<NumV(3)>>
       /\ Len(RunStarts(f + 1)) = 1

\* the replacement of an escape pair, the pair itself if it has none
Unescape(pair) ==
  CASE pair = BS \o "n" -> NL
    [] pair = BS \o "t" -> "\t"
    [] pair = BS \o "r" -> "\r"
    [] pair = BS \o QUOTE -> QUOTE
    [] pair = BS \o "{" -> "{"
    [] pair = BS \o "}" -> "}"
    [] OTHER -> pair

RECURSIVE Decode(_)
\* the string read left to right as escape pairs and plain characters, with
\* the six pairs replaced
Decode(s) ==
  IF s = "" THEN ""
  ELSE IF Ch(s, 1) = BS /\ Len(s) >= 2
         THEN Unescape(SubSeq(s, 1, 2)) \o Decode(From(s, 3))
         ELSE Ch(s, 1) \o Decode(From(s, 2))

\* C16: cleanString of the image of a string-chars token is the image read
\* left to right as escape pairs and plain characters, with the six pairs
\* backslash-n, -t, -r, -quote, -{ and -} replaced by the characters they
\* stand for and everything else, an escaped backslash and what follows it
\* included, unchanged
C16_CleanString ==
  call.op = "cleanString" => call.ret = Decode(call.str)

\* the generated variable nodes of the last call
GeneratedVariables ==
  {v \in NodesSince(call.before) :
     eveParser.nodes[v].type = "variable" /\ eveParser.nodes[v].generated}

\* how often the rules introduced the variable: every rule that asks for a
\* generated variable pushes the token or the node it made it for onto the
\* variable's from list, but for the record rule, which sets it as the
\* variable of its record
Introductions(v) ==
  Len(eveParser.nodes[v].from)
  + Cardinality({r \in AllRecords : Field(eveParser, NodeRef(r), "variable") = NodeRef(v)})

\* the scans of the last call made for a dot step: from is [entity, dot, attribute]
AccessScans ==
  {s \in NodesSince(call.before) :
     /\ eveParser.nodes[s].type = "scan"
     /\ Len(eveParser.nodes[s].from) = 3
     /\ IsTok(eveParser.nodes[s].from[2])
     /\ eveParser.input[eveParser.nodes[s].from[2].t].type = "Dot"}

\* C17: the generated variables introduced for different source tokens are
\* different variable nodes with different names: no generated variable was
\* introduced twice, and two attribute accesses at different positions have
\* different value variables
C17_GeneratedDistinct ==
  Parsed =>
    /\ \A v \in GeneratedVariables : Introductions(v) = 1
    /\ \A v, w \in GeneratedVariables :
         eveParser.nodes[v].name = eveParser.nodes[w].name => v = w
    /\ \A s, q \in AccessScans :
         eveParser.nodes[s].from[3] # eveParser.nodes[q].from[3]
           => eveParser.nodes[s].value # eveParser.nodes[q].value

\* two accesses of the same attribute of the same variable have been parsed
\* at different positions of one line
C17_Witness ==
  /\ Parsed
  /\ \E s, q \in AccessScans :
       /\ s # q
       /\ eveParser.nodes[s].entity = eveParser.nodes[q].entity
       /\ eveParser.nodes[s].needsEntity /\ eveParser.nodes[q].needsEntity
       /\ Image(eveParser, eveParser.nodes[s].from[3]) = Image(eveParser, eveParser.nodes[q].from[3])
       /\ Line(eveParser, eveParser.nodes[s].from[3]) = Line(eveParser, eveParser.nodes[q].from[3])
       /\ eveParser.nodes[s].value # eveParser.nodes[q].value

\* the equality tokens of the input, outside every record, that have an if
\* expression on their right
IfEqualities ==
  {k \in Indices(eveParser.input) :
     /\ eveParser.input[k].type = "Equality"
     /\ k > 2 /\ k < Len(eveParser.input)
     /\ eveParser.input[k + 1].type = "If"
     /\ Depth(k) = 0}

\* the first token of the left of the equality at k: a variable, or a
\* parenthesis of variables
LhsStart(k) ==
  IF eveParser.input[k - 1].type = "CloseParen"
    THEN CHOOSE j \in 1..(k - 1) :
           /\ eveParser.input[j].type = "OpenParen"
           /\ \A i \in (j + 1)..(k - 2) : eveParser.input[i].type = "Identifier"
    ELSE k - 1

\* the names of the variables on the left of the equality at k, in order
LhsNames(k) ==
  LET ix == InOrder({i \in LhsStart(k)..(k - 1) : eveParser.input[i].type = "Identifier"})
  IN [j \in Indices(ix) |-> eveParser.input[ix[j]].image]

\* the tokens that start the branches of the if expression after token k
BranchStarts(k) ==
  InOrder({t \in (k + 1)..Len(eveParser.input) :
             \/ eveParser.input[t].type = "Else"
             \/ (eveParser.input[t].type = "If" /\ eveParser.input[t - 1].type # "Else")})

\* the tokens of the i-th branch
BranchTokens(k, i) ==
  LET starts == BranchStarts(k)
  IN starts[i]..(IF i < Len(starts) THEN starts[i + 1] - 1 ELSE Len(eveParser.input))

\* the token a record, an expression or the scan of a dot step is made at
Anchor(n) ==
  LET node == eveParser.nodes[n]
  IN IF node.type = "record" THEN node.from[1].t ELSE node.from[2].t

\* the records, expressions and dot-step scans of the last call
Lowered ==
  AllRecords \cup AccessScans
  \cup {n \in NodesSince(call.before) : eveParser.nodes[n].type = "expression"}

\* the list of the block the node belongs on
ListFor(blk, n) ==
  IF eveParser.nodes[n].type = "expression"
    THEN eveParser.blocks[blk].expressions ELSE eveParser.blocks[blk].scanLike

\* how many equalities are written in the tokens, outside every record
EqualitiesIn(tokens) ==
  Cardinality({t \in tokens : eveParser.input[t].type = "Equality" /\ Depth(t) = 0})

\* the block is a match section that ends with one statement `lhs = if ...`,
\* lhs not being the right of a comparison itself, and has been parsed
IfStatementParsed ==
  /\ Parsed
  /\ Cardinality(IfEqualities) = 1
  /\ \A k \in IfEqualities :
       /\ eveParser.input[k - 1].type \in {"Identifier", "CloseParen"}
       /\ eveParser.input[LhsStart(k) - 1].type \notin {"Equality", "Comparison"}

\* C18: for a match statement `lhs = if ...` the branches of the
\* ifExpression are in source order; every branch has its own sub-block of
\* the enclosing block, which holds every record, scan, expression and
\* equality written in the branch, and the enclosing block holds none of
\* them; exclusive is false for an if branch and true for an else if and an
\* else branch; outputs of a branch is ifOutputs of its result; the
\* enclosing block's scanLike gains one entry, the ifExpression, whose
\* outputs is ifOutputs(lhs)
C18_IfExpression ==
  IfStatementParsed =>
    \A k \in IfEqualities :
      LET root == call.results.b
          starts == BranchStarts(k)
          after == (k + 1)..Len(eveParser.input)
      IN \E ife \in NodesSince(call.before) :
           LET branches == eveParser.nodes[ife].branches
               branch(i) == eveParser.nodes[branches[i].i]
               sub(i) == branch(i).block.b
           IN /\ eveParser.nodes[ife].type = "ifExpression"
              /\ Len(branches) = Len(starts)
              /\ \A i \in Indices(branches) :
                   /\ branch(i).type = "ifBranch"
                   /\ branch(i).from[1] = TokRef(starts[i])
                   /\ branch(i).exclusive = (eveParser.input[starts[i]].type = "Else")
                   /\ branch(i).outputs = IfOutputsOf(branch(i).from[Len(branch(i).from)])
                   /\ sub(i) # root
                   /\ \A j \in Indices(branches) : sub(i) = sub(j) => i = j
                   /\ \E n \in 0..Len(eveParser.nodes) :
                        eveParser.blocks[sub(i)].id
                          = eveParser.blocks[root].id \o "|sub" \o ToString(n)
                   /\ eveParser.blocks[sub(i)].variableLookup
                        = eveParser.blocks[root].variableLookup
                   /\ \A n \in Lowered :
                        Anchor(n) \in BranchTokens(k, i)
                          => /\ \E x \in Indices(ListFor(sub(i), n)) :
                                  ListFor(sub(i), n)[x] = NodeRef(n)
                             /\ \A x \in Indices(ListFor(root, n)) :
                                  ListFor(root, n)[x] # NodeRef(n)
                   /\ Len(eveParser.blocks[sub(i)].equalities)
                        = EqualitiesIn(BranchTokens(k, i))
              /\ Len(eveParser.blocks[root].equalities) = EqualitiesIn(1..(k - 1))
              /\ Cardinality({x \in Indices(eveParser.blocks[root].scanLike) :
                                eveParser.blocks[root].scanLike[x] = NodeRef(ife)}) = 1
              /\ \A x \in Indices(eveParser.blocks[root].scanLike) :
                   LET entry == eveParser.blocks[root].scanLike[x]
                   IN \/ entry = NodeRef(ife)
                      \/ (IsNode(entry) /\ entry.i \in Lowered /\ Anchor(entry.i) < k)
              /\ \A x \in Indices(eveParser.blocks[root].expressions) :
                   Anchor(eveParser.blocks[root].expressions[x].i) < k
              /\ LET outputs == eveParser.nodes[ife].outputs.items
                     names == LhsNames(k)
                 IN /\ Len(outputs) = Len(names)
                    /\ \A j \in Indices(outputs) :
                         /\ TypeOf(eveParser, outputs[j]) = "variable"
                         /\ eveParser.nodes[outputs[j].i].name = names[j]

\* an if expression with an if, an else if and an else branch has been
\* parsed, whose first branch has a scan, an expression and an equality
C18_Witness ==
  /\ IfStatementParsed
  /\ \E k \in IfEqualities :
       /\ Len(BranchStarts(k)) = 3
       /\ \E n \in AccessScans : Anchor(n) \in BranchTokens(k, 1)
       /\ EqualitiesIn(BranchTokens(k, 1)) = 1
       /\ \E ife \in NodesSince(call.before) :
            /\ eveParser.nodes[ife].type = "ifExpression"
            /\ eveParser.blocks[call.results.b].scanLike = <<NodeRef(ife)>>
            /\ Len(eveParser.nodes[ife].outputs.items) = 1

\* the reference evaluator of infix expressions, over the tokens of the input:
\* a value is the operand at a token or the result of the operator at a
\* token; out holds what it evaluates, next is the token after what it read
RefFail == [next |-> 0, val |-> [kind |-> "none", t |-> 0], out |-> {}, ok |-> FALSE]

RefIs(k, type) == k >= 1 /\ k <= Len(eveParser.input) /\ eveParser.input[k].type = type

RECURSIVE RefInfixValue(_)
RECURSIVE RefMultiplication(_)
RECURSIVE RefAddition(_)
RECURSIVE RefRest(_, _)

\* the operators of a level applied from left to right: level "AddInfix" has
\* products as operands, level "MultInfix" numbers, variables and parentheses
RefRest(acc, level) ==
  IF acc.ok /\ RefIs(acc.next, level)
    THEN LET right == IF level = "AddInfix" THEN RefMultiplication(acc.next + 1)
                      ELSE RefInfixValue(acc.next + 1)
         IN RefRest([next |-> right.next,
                     val |-> [kind |-> "result", t |-> acc.next],
                     out |-> acc.out \cup right.out
                             \cup {[op |-> acc.next, left |-> acc.val, right |-> right.val]},
                     ok |-> right.ok], level)
    ELSE acc

RefInfixValue(k) ==
  IF RefIs(k, "Num") \/ RefIs(k, "Identifier")
    THEN [next |-> k + 1, val |-> [kind |-> "operand", t |-> k], out |-> {}, ok |-> TRUE]
  ELSE IF RefIs(k, "OpenParen")
    THEN LET inner == RefAddition(k + 1)
         IN IF inner.ok /\ RefIs(inner.next, "CloseParen")
              THEN [inner EXCEPT !.next = @ + 1] ELSE RefFail
  ELSE RefFail

RefMultiplication(k) == RefRest(RefInfixValue(k), "MultInfix")

RefAddition(k) == RefRest(RefMultiplication(k), "AddInfix")

\* the block `match x = e`, e an infix expression of numbers, variables and
\* parentheses with an operator in it, has been parsed
InfixParsed ==
  /\ Parsed
  /\ RefIs(2, "Identifier") /\ RefIs(3, "Equality")
  /\ RefAddition(4).ok
  /\ RefAddition(4).next = Len(eveParser.input) + 1
  /\ RefAddition(4).out # {}

\* the expression node of the last call made for the operator at token t
ExpressionAt(t) ==
  CHOOSE n \in NodesSince(call.before) :
    /\ eveParser.nodes[n].type = "expression"
    /\ eveParser.nodes[n].from[2] = TokRef(t)

\* is m the value the parser has for the reference value v
Lowers(v, m) ==
  IF v.kind = "result" THEN m = eveParser.nodes[ExpressionAt(v.t)].variable
  ELSE IF eveParser.input[v.t].type = "Num"
    THEN /\ TypeOf(eveParser, m) = "constant"
         /\ eveParser.nodes[m.i].from = <<TokRef(v.t)>>
    ELSE /\ TypeOf(eveParser, m) = "variable"
         /\ eveParser.nodes[m.i].name = eveParser.input[v.t].image

\* C19: the expressions of an infix expression are those of the reference
\* evaluator, which binds * and / tighter than + and - and associates to
\* the left: one expression node per operator, with the operator as op, with
\* the values of its left (the first operand, or the result of the operator
\* before it in the run) and its right as args and with a generated variable
\* of its own; the value of the whole is the variable of the last one; and
\* in block.expressions an expression stands after those whose results it
\* takes
C19_InfixLowering ==
  InfixParsed =>
    LET ref == RefAddition(4)
        root == eveParser.blocks[call.results.b]
        exprs == root.expressions
        node(x) == eveParser.nodes[exprs[x].i]
    IN /\ Len(exprs) = Cardinality(ref.out)
       /\ \A e \in ref.out :
            \E x \in Indices(exprs) :
              /\ node(x).from[2] = TokRef(e.op)
              /\ node(x).op = eveParser.input[e.op].image
              /\ Len(node(x).args) = 2
              /\ Lowers(e.left, node(x).args[1])
              /\ Lowers(e.right, node(x).args[2])
              /\ node(x).variable.i \in GeneratedVariables
              /\ \A y \in Indices(exprs) : node(y).variable = node(x).variable => y = x
              /\ \A v \in {e.left, e.right} :
                   v.kind = "result" => \E y \in 1..(x - 1) : node(y).from[2] = TokRef(v.t)
       /\ \E q \in Indices(root.equalities) :
            /\ Lowers([kind |-> "operand", t |-> 2], root.equalities[q][1])
            /\ Lowers(ref.val, root.equalities[q][2])

\* an expression with a product on either side of a sum, each of them a run
\* of two operators or more, has been lowered, and one with a parenthesis
C19_Witness ==
  /\ InfixParsed
  /\ \E e, f \in RefAddition(4).out :
       /\ eveParser.input[e.op].type = "AddInfix"
       /\ e.left.kind = "result" /\ eveParser.input[e.left.t].type = "MultInfix"
       /\ e.right.kind = "result" /\ eveParser.input[e.right.t].type = "MultInfix"
       /\ eveParser.input[f.op].type = "AddInfix"
       /\ f.left.kind = "result" /\ eveParser.input[f.left.t].type = "AddInfix"

\* the attributeMutator nodes of the last call
Mutators ==
  {m \in NodesSince(call.before) : eveParser.nodes[m].type = "attributeMutator"}

\* the attribute tokens a mutator steps through: its from list is
\* [entity, dot, attribute, dot, ..., attribute], the last one being the
\* attribute the operation works on
StepsOf(m) ==
  LET from == eveParser.nodes[m].from
  IN [j \in 1..((Len(from) - 3) \div 2) |-> from[2 * j + 1]]

\* the scan of the last call made for the step through the attribute token
StepScan(attr) ==
  CHOOSE s \in AccessScans : eveParser.nodes[s].from[3] = attr

\* the current-value scans the <- form made for the mutator
MergeScans(m) ==
  {s \in NodesSince(call.before) :
     /\ eveParser.nodes[s].type = "scan"
     /\ eveParser.nodes[s].from = <<NodeRef(m)>>}

\* has the scan the shape of a scan of attribute access for the attribute
\* token: a constant with the identifier's text, the step's generated
\* variable, needsEntity as given
AccessShaped(s, attr, first) ==
  LET scan == eveParser.nodes[s]
  IN /\ TypeOf(eveParser, scan.attribute) = "constant"
     /\ eveParser.nodes[scan.attribute.i].value = StrV(Image(eveParser, attr))
     /\ TypeOf(eveParser, scan.value) = "variable"
     /\ eveParser.nodes[scan.value.i].name
          = Image(eveParser, attr) \o "|" \o Line(eveParser, attr) \o "|" \o Column(eveParser, attr)
     /\ Field(eveParser, NodeRef(s), "needsEntity") = first

\* C20: every scan made for the left of an attribute operation, one per
\* intermediate dot step of the mutator and the current-value scan of the <-
\* form, has the shape of a scan of attribute access: the attribute is a
\* constant with the text of the attribute identifier, the value is the
\* generated variable of the step, needsEntity is true on the first step only
C20_MutatorScans ==
  Parsed =>
    \A m \in Mutators :
      LET steps == StepsOf(m)
      IN /\ \A j \in Indices(steps) :
              /\ \E s \in AccessScans : eveParser.nodes[s].from[3] = steps[j]
              /\ AccessShaped(StepScan(steps[j]), steps[j], j = 1)
         /\ \A s \in MergeScans(m) :
              AccessShaped(s, eveParser.nodes[m].attribute, steps = <<>>)

\* C23: toVariable(name) returns a node of type "variable" whose name is the
\* string asked for, and the node is stored under the name in variableLookup
\* and in the variables of the block, for the names every object inherits as
\* for every other name
C23_ToVariable ==
  pb.last.op = "toVariable" =>
    LET blk == pb.h.blocks[pb.last.b]
        lookup == pb.h.lookups[blk.variableLookup]
    IN /\ IsNode(pb.last.ret)
       /\ pb.h.nodes[pb.last.ret.i].type = "variable"
       /\ pb.h.nodes[pb.last.ret.i].name = pb.last.name
       /\ pb.last.name \in DOMAIN lookup
       /\ lookup[pb.last.name] = pb.last.ret
       /\ pb.last.name \in DOMAIN blk.variables
       /\ blk.variables[pb.last.name] = pb.last.ret

\* the newline characters of the flattened text before the offset
NewlinesBefore(offset) == CountLines(SubSeq(md.text, 1, offset))

\* C22: at the entering event of a node that has a source position, once the
\* synthetic newlines are emitted, the flattened text holds (start line of
\* the node - 1) newline characters: this is so for the start of every node
\* on the context stack and of every code block, after whatever nodes came
\* before
C22_LinesAligned ==
  md.st = "walking" =>
    /\ \A c \in Indices(md.context) :
         md.context[c].sourcepos # 0
           => NewlinesBefore(md.context[c].start) = md.context[c].sourcepos - 1
    /\ \A b \in Indices(md.blocks) :
         NewlinesBefore(md.blocks[b].startOffset) = md.blocks[b].sourcepos - 1

\* the not tokens of the input written inside a record, before an attribute
NotAttributes ==
  {n \in Indices(eveParser.input) :
     /\ eveParser.input[n].type = "Not"
     /\ Depth(n) > 0
     /\ n + 2 <= Len(eveParser.input)
     /\ eveParser.input[n + 1].type = "OpenParen"
     /\ eveParser.input[n + 2].type = "Identifier"}

\* the opening bracket of the record the token is written in
Enclosing(n) ==
  CHOOSE k \in 1..(n - 1) :
    /\ eveParser.input[k].type = "OpenBracket"
    /\ CloseOf(k, 0) > n
    /\ \A j \in (k + 1)..(n - 1) :
         eveParser.input[j].type = "OpenBracket" => CloseOf(j, 0) < n

\* the blocks of the last call whose scanLike holds the value
HoldersOf(v) ==
  {b \in BlocksSince(call.before) :
     \E x \in Indices(eveParser.blocks[b].scanLike) : eveParser.blocks[b].scanLike[x] = v}

\* a block whose tokens the parser took without an error, on a parser with
\* nothing left over from earlier calls, and that has a not in a record
NotWritten ==
  /\ call.op = "parseBlock"
  /\ call.errors = <<>>
  /\ call.before.blocks = 0
  /\ NotAttributes # {}

\* C21: for every not(a) or not(a > e) written in a record there is a
\* sub-block of type "not" with one scan, whose entity is the identity
\* variable of the record and whose attribute is a constant with the name a
\* as written; the variable is in the sub-block's variables; the sub-block is
\* in the scanLike of one block, the enclosing one; and the record has no
\* attribute node for it
C21_AttributeNot ==
  NotWritten =>
    /\ ~call.threw
    /\ \A n \in NotAttributes :
         LET rec == eveParser.nodes[RecordAt(Enclosing(n))]
         IN \E b \in BlocksSince(call.before) :
              LET blk == eveParser.blocks[b]
              IN /\ blk.type = "not"
                 /\ blk.from.items[1] = TokRef(n)
                 /\ Len(blk.scanLike) = 1
                 /\ TypeOf(eveParser, blk.scanLike[1]) = "scan"
                 /\ "variable" \in DOMAIN rec
                 /\ TypeOf(eveParser, rec.variable) = "variable"
                 /\ eveParser.nodes[blk.scanLike[1].i].entity = rec.variable
                 /\ TypeOf(eveParser, eveParser.nodes[blk.scanLike[1].i].attribute) = "constant"
                 /\ eveParser.nodes[eveParser.nodes[blk.scanLike[1].i].attribute.i].value
                      = StrV(eveParser.input[n + 2].image)
                 /\ PropGet(blk.variables, eveParser.nodes[rec.variable.i].name)
                      = rec.variable
                 /\ Cardinality(HoldersOf(BlockRef(b))) = 1
                 /\ b \notin HoldersOf(BlockRef(b))
                 /\ \A a \in Indices(rec.attributes) :
                      rec.attributes[a] # blk.from.items[3]

====
